---- MODULE Spec2Model ----
(***************************************************************************)
(* Job lifecycle of the visualization-render and image-generation          *)
(* pipeline of backend/app: the task record store (task_manager.py), the   *)
(* render executors (render_service.py), the render endpoints              *)
(* (api/v1/endpoints/visualization.py).                                     *)
(***************************************************************************)
EXTENDS Integers, Sequences, FiniteSets, TLC

\* ------------------------------------------------------------------ bounds
NumJobs == 2        \* render jobs submitted in a run of Spec
NumBurst == 3       \* render jobs submitted in a run of SpecBurst
NumPerKind == 1     \* jobs of each kind submitted in a run of SpecKinds
NumQueue == 4       \* start_render_task calls in a run of SpecQueue
NumImages == 4      \* image tasks submitted in a run of SpecImageBurst
AudioChunks == 2    \* chunks shutil.copy2 writes an audio file in

\* --------------------------------------------------------------- constants
MAX_CONCURRENT_RENDERS == 2
MAX_CONCURRENT_IMAGE_TASKS == 3

Max(a, b) == IF a >= b THEN a ELSE b

\* the ids str(uuid.uuid4()) can return in a run: never one twice
Jobs == 1..Max(Max(Max(NumJobs, NumBurst), Max(NumPerKind, NumQueue)), NumImages)

\* Optional values: Python's None, and a value that is present
None == <<>>
Some(x) == <<x>>
NoTask == None          \* no file at that path; get_task's None

\* the length the error texts are cut to ([:500])
MaxErrorLen == 500

RECURSIVE Repeat(_, _)
\* the text s written n times
Repeat(s, n) ==
    IF n = 0 THEN ""
    ELSE IF n % 2 = 0 THEN LET half == Repeat(s, n \div 2) IN half \o half
    ELSE s \o Repeat(s, n - 1)

\* a relative path of more than MaxErrorLen characters (components under 255)
LongPath == Repeat("dir/", MaxErrorLen \div 4) \o "missing.mp3"

\* a diagnostic of more than MaxErrorLen characters (a traceback, a response body)
LongText == Repeat("e", MaxErrorLen + 1)

\* the audio_path values of the requests
AudioPaths == {"ok.mp3", "missing.mp3", LongPath}
\* the files under AUDIO_BASE_PATH
AudioFiles == {"ok.mp3"}

VARIABLES
    tasks,          \* TASKS_DIR/<id>.json: <<record>>, or <<>> when there is no file
    analysisFiles,  \* ids with a REMOTION_DATA_DIR/<id>.json
    videoFiles,     \* ids with a VIDEO_OUTPUT_DIR/<id>.mp4
    nextId,         \* number of ids create_task has issued
    req,            \* the VisualizationRequest handed to each job's executor
    pc,             \* position of each job's render_visualization_sync call
    held,           \* the record update_task has read and not yet saved
    exc,            \* the message the executor is about to store as error
    delPc,          \* position of the delete_task request handler
    delId,          \* its task_id
    delSeen,        \* the status its get_task returned
    deleted,        \* per id, the statuses seen by the delete requests answered 200
    sem,            \* _render_semaphore: None, or Some of its _value and _waiters
    hist,           \* the (status, progress) pairs stored for each job, in order
    rendered,       \* ids for which the external renderer was started
    img,            \* the Celery result backend: state and info of each image task
    ipc,            \* position of each generate_image_from_audio call
    ireq,           \* the audio_path each image task was submitted with
    generated,      \* image tasks for which generator.generate was called
    torn,           \* ids whose record file _save_task has opened and not yet written
    resp,           \* the answer of the latest request for a job's status or artifact
    revoked,        \* per image task, the positions it was at when a revoke was issued
    polled,         \* per image task, the status its latest status request returned
    audioDir,       \* REMOTION_AUDIO_DIR: per audio path, None or Some of the chunks written
    copied,         \* the chunks each executor's shutil.copy2 has written so far
    call            \* a function evaluated on its own: name, arguments, return value

vars == <<tasks, analysisFiles, videoFiles, nextId, req, pc, held, exc,
          delPc, delId, delSeen, deleted, sem, hist, rendered,
          img, ipc, ireq, generated, torn, resp, revoked, polled,
          audioDir, copied, call>>

storeVars == <<tasks, hist>>
fileVars == <<analysisFiles, videoFiles>>
delVars == <<delPc, delId, delSeen, deleted>>
imgVars == <<img, ipc, ireq, generated>>
celVars == <<revoked, polled>>
auxVars == <<torn, resp, celVars>>
audioVars == <<audioDir, copied>>
renderVars == <<tasks, analysisFiles, videoFiles, nextId, req, pc, held, exc,
                delPc, delId, delSeen, deleted, sem, hist, rendered, audioVars>>
syncVars == <<delPc, delId, delSeen, deleted, sem>>

Statuses == {"pending", "analyzing", "rendering", "completed", "failed"}
Terminal == {"completed", "failed"}

\* ------------------------------------------------------ task record store

\* VisualizationTask(task_id, status="pending", progress=0)
NewTask(id) ==
    [task_id |-> id, status |-> "pending", progress |-> 0,
     video_path |-> None, error |-> None]

\* get_task: None when the file does not exist, else the record read from it
GetTask(store, id) == store[id]

\* a slip: an error argument of None clears the stored error
ApplyUpdate_Resets(task, status, progress, video_path, error) ==
    [task_id    |-> task.task_id,
     status     |-> IF status # None THEN status[1] ELSE task.status,
     progress   |-> IF progress # None THEN progress[1] ELSE task.progress,
     video_path |-> IF video_path # None THEN video_path ELSE task.video_path,
     error      |-> error]

\* the assignments of update_task: a None argument leaves the field alone
ApplyUpdate(task, status, progress, video_path, error) ==
    [task_id    |-> task.task_id,
     status     |-> IF status # None THEN status[1] ELSE task.status,
     progress   |-> IF progress # None THEN progress[1] ELSE task.progress,
     video_path |-> IF video_path # None THEN video_path ELSE task.video_path,
     error      |-> IF error # None THEN error ELSE task.error]

\* _save_task: (re)writes the file of task.task_id
SaveTask(store, task) == [store EXCEPT ![task.task_id] = <<task>>]

\* task_manager.delete_task: unlink when the file exists
DeleteTaskFile(store, id) == [store EXCEPT ![id] = NoTask]

\* list_tasks: every record under TASKS_DIR
ListTasks(store) == {store[id][1] : id \in {i \in Jobs : store[i] # NoTask}}

\* the history kept beside the store: each (status, progress) a save has stored
Stored(task) == [status |-> task.status, progress |-> task.progress]
Record(h, task) ==
    IF h[task.task_id] # <<>> /\ h[task.task_id][Len(h[task.task_id])] = Stored(task)
    THEN h
    ELSE [h EXCEPT ![task.task_id] = Append(@, Stored(task))]

\* ------------------------------------------------- executor's update calls

\* a slip: the first update already stores the next stage
MarkAnalyzing_Skips(task) == ApplyUpdate(task, Some("rendering"), Some(30), None, None)

\* update_task(task_id, status="analyzing", progress=10)
MarkAnalyzing(task) == ApplyUpdate(task, Some("analyzing"), Some(10), None, None)

\* a slip: the progress of the second update is below the first
MarkRendering_Regress(task) == ApplyUpdate(task, Some("rendering"), Some(3), None, None)

\* update_task(task_id, status="rendering", progress=30)
MarkRendering(task) == ApplyUpdate(task, Some("rendering"), Some(30), None, None)

\* f"/videos/{task_id}.mp4"
VideoUrl(id) == "/videos/" \o ToString(id) \o ".mp4"

\* update_task(task_id, status="completed", progress=100, video_path=video_url)
MarkCompleted(task) == ApplyUpdate(task, Some("completed"), Some(100), Some(VideoUrl(task.task_id)), None)

\* a slip: the failure is stored without its error text
MarkFailed_NoError(task, msg) == ApplyUpdate(task, Some("failed"), Some(0), None, None)

\* update_task(task_id, status="failed", progress=0, error=msg)
MarkFailed(task, msg) == ApplyUpdate(task, Some("failed"), Some(0), None, Some(msg))

\* ------------------------------------------------------------ error texts

\* a slip: the message leaves the path out
NotFoundMsg_Bare(path) == "Audio file not found"

\* analyze_audio: FileNotFoundError(f"Audio file not found: {full_path}")
NotFoundMsg(path) == "Audio file not found: " \o path

\* s[:500]
Truncate(s) == IF Len(s) > MaxErrorLen THEN SubSeq(s, 1, MaxErrorLen) ELSE s

\* f"Render error: {type(e).__name__}: {str(e)}"[:500]
RenderErrorMsg(name, text) == Truncate("Render error: " \o name \o ": " \o text)

\* what subprocess.run can return: (returncode, stdout, stderr)
RemotionResults ==
    {[returncode |-> 0, stdout |-> "Rendered", stderr |-> ""],
     [returncode |-> 1, stdout |-> "Rendering", stderr |-> "Error: no composition"],
     [returncode |-> 1, stdout |-> "", stderr |-> LongText],
     [returncode |-> 1, stdout |-> "", stderr |-> ""]}

\* the same and more: warnings on a clean exit, output on stdout only, a
\* renderer killed by a signal
ExitResults ==
    RemotionResults \cup
    {[returncode |-> 0, stdout |-> "Rendered", stderr |-> "warning: deprecated"],
     [returncode |-> 1, stdout |-> "Rendering frame 3", stderr |-> ""],
     [returncode |-> 0 - 9, stdout |-> "", stderr |-> "Killed"]}

\* a slip: stdout is preferred to stderr
ExitErrorMsg_StdoutFirst(res) ==
    Truncate(IF res.stdout # "" THEN res.stdout
             ELSE IF res.stderr # "" THEN res.stderr
             ELSE "Unknown render error")

\* stderr if stderr else stdout if stdout else "Unknown render error", cut to 500
ExitErrorMsg(res) ==
    Truncate(IF res.stderr # "" THEN res.stderr
             ELSE IF res.stdout # "" THEN res.stdout
             ELSE "Unknown render error")

\* -------------------------------------------------------------------- init
\* no request being served, no executor running
Idle ==
    /\ req = [j \in Jobs |-> ""]
    /\ pc = [j \in Jobs |-> "none"]
    /\ held = [j \in Jobs |-> NoTask]
    /\ exc = [j \in Jobs |-> ""]
    /\ delPc = "idle"
    /\ delId = 0
    /\ delSeen = ""
    /\ deleted = [j \in Jobs |-> {}]
    /\ sem = None
    /\ rendered = {}
    /\ img = [j \in Jobs |-> [state |-> "PENDING", info |-> None]]
    /\ ipc = [j \in Jobs |-> "none"]
    /\ ireq = [j \in Jobs |-> ""]
    /\ generated = {}
    /\ torn = {}
    /\ resp = None
    /\ revoked = [j \in Jobs |-> {}]
    /\ polled = [j \in Jobs |-> ""]
    /\ audioDir = [path \in AudioFiles |-> None]
    /\ copied = [j \in Jobs |-> 0]

StartUp ==
    /\ tasks = [j \in Jobs |-> NoTask]
    /\ hist = [j \in Jobs |-> <<>>]
    /\ analysisFiles = {}
    /\ videoFiles = {}
    /\ nextId = 0
    /\ Idle

\* no function is being evaluated on its own
NoCall == [fn |-> "none", arg |-> None, loc |-> None, ret |-> None]

Init == StartUp /\ call = NoCall

\* ------------------------------------------------- POST /visualization/render

\* a slip: the id issued last is issued again
NewTaskId_Reused(issued) == IF issued = 0 THEN 1 ELSE issued

\* create_task: str(uuid.uuid4()), an id no earlier call has returned
NewTaskId(issued) == issued + 1

\* create_render_task: create_task, then add the executor as a background task
CreateRenderTask(limit) ==
    /\ nextId < limit
    /\ \E path \in AudioPaths :
        LET id == NewTaskId(nextId) IN
        /\ nextId' = id
        /\ tasks' = SaveTask(tasks, NewTask(id))
        /\ hist' = Record(hist, NewTask(id))
        /\ req' = [req EXCEPT ![id] = path]
        /\ pc' = [pc EXCEPT ![id] = "queued"]
    /\ UNCHANGED <<call, audioVars, fileVars, held, exc, syncVars, rendered, imgVars, auxVars>>

\* ------------------------------------------- render_visualization_sync steps

\* get_task inside an update_task call: on None the call returns at once
UpdateGet(j, from, save, after) ==
    /\ pc[j] = from
    /\ IF GetTask(tasks, j) = NoTask
       THEN /\ pc' = [pc EXCEPT ![j] = after]
            /\ held' = held
            /\ exc' = IF after = "done" THEN [exc EXCEPT ![j] = ""] ELSE exc
       ELSE /\ pc' = [pc EXCEPT ![j] = save]
            /\ held' = [held EXCEPT ![j] = GetTask(tasks, j)]
            /\ exc' = exc
    /\ UNCHANGED <<call, audioVars, storeVars, fileVars, nextId, req, syncVars, rendered, imgVars, auxVars>>

\* the field assignments and _save_task that end an update_task call
UpdateSave(j, from, task, after) ==
    /\ pc[j] = from
    /\ tasks' = SaveTask(tasks, task)
    /\ hist' = Record(hist, task)
    /\ held' = [held EXCEPT ![j] = NoTask]
    /\ pc' = [pc EXCEPT ![j] = after]
    /\ exc' = IF after = "done" THEN [exc EXCEPT ![j] = ""] ELSE exc
    /\ torn' = torn \ {j}
    /\ UNCHANGED <<call, audioVars, fileVars, nextId, req, syncVars, rendered, imgVars, resp, celVars>>

\* update_task(task_id, status="analyzing", progress=10)
AnalyzingGet(j) == UpdateGet(j, "queued", "u1_save", "analyze")
AnalyzingSave(j) == UpdateSave(j, "u1_save", MarkAnalyzing(held[j][1]), "analyze")

\* the chunks of a whole audio file
WholeFile == 1..AudioChunks

\* _ensure_audio_available run from its first line to its last with nothing
\* in between: the copy is made when dest does not exist
EnsureAudio(dir, path) ==
    IF dir[path] # None THEN dir ELSE [dir EXCEPT ![path] = Some(WholeFile)]

\* how analyze_audio, save_analysis_to_json and _ensure_audio_available end
\* for an audio file that exists: any way, or the one way the run was set up
\* with
AnalysisOutcomes ==
    IF call.fn = "render_visualization" THEN {call.arg[1].analysis}
    ELSE {"ok", "decode", "copy"}

\* analyze_audio, save_analysis_to_json, _ensure_audio_available
Analyze(j) ==
    /\ pc[j] = "analyze"
    /\ IF req[j] \notin AudioFiles
       THEN \* full_path.exists() is false
            /\ exc' = [exc EXCEPT ![j] = NotFoundMsg(req[j])]
            /\ pc' = [pc EXCEPT ![j] = "h_get"]
            /\ analysisFiles' = analysisFiles
            /\ audioDir' = audioDir
       ELSE \/ \* all three calls return
               /\ "ok" \in AnalysisOutcomes
               /\ analysisFiles' = analysisFiles \cup {j}
               /\ audioDir' = EnsureAudio(audioDir, req[j])
               /\ pc' = [pc EXCEPT ![j] = "u2_get"]
               /\ exc' = exc
            \/ \* librosa raises on the audio data
               /\ "decode" \in AnalysisOutcomes
               /\ analysisFiles' = analysisFiles
               /\ audioDir' = audioDir
               /\ exc' = [exc EXCEPT ![j] = RenderErrorMsg("Exception", "decode")]
               /\ pc' = [pc EXCEPT ![j] = "h_get"]
            \/ \* the analysis is written, the copy of the audio raises
               /\ "copy" \in AnalysisOutcomes
               /\ analysisFiles' = analysisFiles \cup {j}
               /\ audioDir' = audioDir
               /\ exc' = [exc EXCEPT ![j] = RenderErrorMsg("OSError", "copy")]
               /\ pc' = [pc EXCEPT ![j] = "h_get"]
    /\ UNCHANGED <<call, copied, storeVars, videoFiles, nextId, req, held, syncVars, rendered, imgVars, auxVars>>

\* update_task(task_id, status="rendering", progress=30)
RenderingGet(j) == UpdateGet(j, "u2_get", "u2_save", "render")
RenderingSave(j) == UpdateSave(j, "u2_save", MarkRendering(held[j][1]), "render")

\* what _run_remotion_sync returns this time: any result, or the one result
\* the run was set up with
RemotionReturns ==
    IF call.fn = "_run_remotion_sync" THEN {call.ret[1]}
    ELSE IF call.fn = "render_visualization"
    THEN (IF call.ret = None THEN {} ELSE {call.ret[1]})
    ELSE RemotionResults

\* subprocess.run may raise, unless the run was set up with a result
RemotionRaises == call.fn = "render_visualization" => call.ret = None

\* _run_remotion_sync and the test of its return code
RunRemotion(j) ==
    /\ pc[j] = "render"
    /\ rendered' = rendered \cup {j}
    /\ \/ \E res \in RemotionReturns :
            IF res.returncode = 0
            THEN \* the video is written
                 /\ videoFiles' = videoFiles \cup {j}
                 /\ pc' = [pc EXCEPT ![j] = "u3_get"]
                 /\ exc' = exc
            ELSE /\ exc' = [exc EXCEPT ![j] = ExitErrorMsg(res)]
                 /\ pc' = [pc EXCEPT ![j] = "rf_get"]
                 /\ videoFiles' = videoFiles
       \/ \* subprocess.run raises
          /\ RemotionRaises
          /\ exc' = [exc EXCEPT ![j] = RenderErrorMsg("OSError", "spawn")]
          /\ pc' = [pc EXCEPT ![j] = "h_get"]
          /\ videoFiles' = videoFiles
    /\ UNCHANGED <<call, audioVars, storeVars, analysisFiles, nextId, req, held, syncVars, imgVars, auxVars>>

\* update_task(task_id, status="failed", progress=0, error=error_msg[:500]); return
ExitFailedGet(j) == UpdateGet(j, "rf_get", "rf_save", "done")
ExitFailedSave(j) == UpdateSave(j, "rf_save", MarkFailed(held[j][1], exc[j]), "done")

\* update_task(task_id, status="completed", progress=100, video_path=video_url)
CompletedGet(j) == UpdateGet(j, "u3_get", "u3_save", "done")
CompletedSave(j) == UpdateSave(j, "u3_save", MarkCompleted(held[j][1]), "done")

\* a slip: the except clauses of the synchronous executor store no error text
HandlerSave_Bare(j) == UpdateSave(j, "h_save", MarkFailed_NoError(held[j][1], exc[j]), "done")

\* the except clauses: update_task(task_id, status="failed", progress=0, error=...)
HandlerGet(j) == UpdateGet(j, "h_get", "h_save", "done")
HandlerSave(j) == UpdateSave(j, "h_save", MarkFailed(held[j][1], exc[j]), "done")

Executor(j) ==
    \/ AnalyzingGet(j)
    \/ AnalyzingSave(j)
    \/ Analyze(j)
    \/ RenderingGet(j)
    \/ RenderingSave(j)
    \/ RunRemotion(j)
    \/ ExitFailedGet(j)
    \/ ExitFailedSave(j)
    \/ CompletedGet(j)
    \/ CompletedSave(j)
    \/ HandlerGet(j)
    \/ HandlerSave(j)

\* ------------------------------------------ DELETE /visualization/task/{id}

\* cleanup_task_files: analysis_path.unlink() when it exists
RemoveAnalysis(files, id) == files \ {id}

\* a slip: the video is left behind
RemoveVideo_Kept(files, id) == files

\* cleanup_task_files: video_path.unlink() when it exists
RemoveVideo(files, id) == files \ {id}

\* the statuses for which the endpoint answers 400
DeleteRefused(status) == status \in {"analyzing", "rendering"}

\* delete_task endpoint: get_task and the two checks (404, 400)
DeleteRequest(id) ==
    /\ delPc = "idle"
    /\ LET task == GetTask(tasks, id) IN
       /\ task # None
       /\ ~DeleteRefused(task[1].status)
       /\ delPc' = "cleanup"
       /\ delId' = id
       /\ delSeen' = task[1].status
    /\ UNCHANGED <<call, audioVars, storeVars, fileVars, nextId, req, pc, held, exc, deleted, sem, rendered, imgVars, auxVars>>

\* delete_task endpoint: HTTPException 404 or 400, nothing is touched
DeleteRejected(id) ==
    /\ delPc = "idle"
    /\ LET task == GetTask(tasks, id) IN
       IF task = None THEN TRUE ELSE DeleteRefused(task[1].status)
    /\ UNCHANGED vars

\* cleanup_task_files (the two unlinks and task_manager.delete_task), then 200
DeleteCleanup ==
    /\ delPc = "cleanup"
    /\ analysisFiles' = RemoveAnalysis(analysisFiles, delId)
    /\ videoFiles' = RemoveVideo(videoFiles, delId)
    /\ tasks' = DeleteTaskFile(tasks, delId)
    /\ deleted' = [deleted EXCEPT ![delId] = @ \cup {delSeen}]
    /\ delPc' = "idle"
    /\ delId' = 0
    /\ delSeen' = ""
    /\ UNCHANGED <<call, audioVars, hist, nextId, req, pc, held, exc, sem, rendered, imgVars, auxVars>>

DeleteTask ==
    \/ \E id \in Jobs : DeleteRequest(id)
    \/ \E id \in Jobs : DeleteRejected(id)
    \/ DeleteCleanup


\* ------------------------------------- asyncio.Semaphore(MAX_CONCURRENT_RENDERS)

\* Semaphore.locked(): no slot left, or a waiter is queued
SemLocked(s) == s.value = 0 \/ s.waiters # <<>>

\* a slip: one slot too many
GetSemaphore_Wide(cur) ==
    IF cur = None
    THEN [instance |-> 1, value |-> MAX_CONCURRENT_RENDERS + 1, waiters |-> <<>>]
    ELSE cur[1]

\* a slip: every call constructs a semaphore
GetSemaphore_Fresh(cur) ==
    [instance |-> IF cur = None THEN 1 ELSE cur[1].instance + 1,
     value |-> MAX_CONCURRENT_RENDERS, waiters |-> <<>>]

\* _get_semaphore: the semaphore, constructed on first use (instance numbers
\* the Semaphore objects constructed so far)
GetSemaphore(cur) ==
    IF cur = None
    THEN [instance |-> 1, value |-> MAX_CONCURRENT_RENDERS, waiters |-> <<>>]
    ELSE cur[1]

\* a slip: the newest waiter is served first
WakeUpNext_Last(s) ==
    LET idle == {i \in 1..Len(s.waiters) : ~s.waiters[i].woken} IN
    IF idle = {} THEN s
    ELSE LET i == CHOOSE m \in idle : \A n \in idle : m >= n IN
         [s EXCEPT !.value = @ - 1, !.waiters[i].woken = TRUE]

\* Semaphore._wake_up_next: hand a slot to the first waiter not yet woken
WakeUpNext(s) ==
    LET idle == {i \in 1..Len(s.waiters) : ~s.waiters[i].woken} IN
    IF idle = {} THEN s
    ELSE LET i == CHOOSE m \in idle : \A n \in idle : m <= n IN
         [s EXCEPT !.value = @ - 1, !.waiters[i].woken = TRUE]

\* a slip: the slot is kept when the block is left
SemRelease_Skipped(s) == s

\* Semaphore.release, run when the async with block is left
SemRelease(s) == WakeUpNext([s EXCEPT !.value = @ + 1])

\* a woken acquire() resumes: its future leaves the queue
SemResume(s, j) ==
    LET rest == SelectSeq(s.waiters, LAMBDA w : w.id # j)
        s1 == [s EXCEPT !.waiters = rest]
    IN IF s1.value > 0 THEN WakeUpNext(s1) ELSE s1

IsWoken(s, j) == \E i \in 1..Len(s.waiters) : s.waiters[i].id = j /\ s.waiters[i].woken

\* the loop runs the wake-ups in the order the futures were set: the woken
\* waiter that resumes next is the one at the head of the queue
IsReady(s, j) == IsWoken(s, j) /\ s.waiters[1].id = j

\* ------------------------------------- start_render_task, on the event loop

\* update_task as one call: get_task, the assignments, _save_task
UpdateTask(store, id, task) == IF GetTask(store, id) = None THEN store ELSE SaveTask(store, task)
UpdateHist(h, store, id, task) == IF GetTask(store, id) = None THEN h ELSE Record(h, task)

\* a request handler creates the record and schedules start_render_task
SubmitAsync(limit) ==
    /\ nextId < limit
    /\ \E path \in AudioPaths :
        LET id == nextId + 1 IN
        /\ nextId' = id
        /\ tasks' = SaveTask(tasks, NewTask(id))
        /\ hist' = Record(hist, NewTask(id))
        /\ req' = [req EXCEPT ![id] = path]
        /\ pc' = [pc EXCEPT ![id] = "a_new"]
    /\ UNCHANGED <<call, audioVars, fileVars, held, exc, delVars, sem, rendered, imgVars, auxVars>>

\* render_visualization from its first line to its await of the subprocess (or,
\* when the analysis raises, to its return), entered holding a slot of s
RenderToAwait(j, s) ==
    LET t1 == MarkAnalyzing(tasks[j][1])
        st1 == UpdateTask(tasks, j, t1)
        h1 == UpdateHist(hist, tasks, j, t1)
        Fail(msg) ==
            /\ tasks' = UpdateTask(st1, j, MarkFailed(st1[j][1], msg))
            /\ hist' = UpdateHist(h1, st1, j, MarkFailed(st1[j][1], msg))
            /\ sem' = Some(SemRelease(s))
            /\ pc' = [pc EXCEPT ![j] = "done"]
            /\ audioDir' = audioDir
    IN
    IF req[j] \notin AudioFiles
    THEN Fail(NotFoundMsg(req[j])) /\ analysisFiles' = analysisFiles
    ELSE \/ /\ "ok" \in AnalysisOutcomes
            /\ analysisFiles' = analysisFiles \cup {j}
            /\ audioDir' = EnsureAudio(audioDir, req[j])
            /\ tasks' = UpdateTask(st1, j, MarkRendering(st1[j][1]))
            /\ hist' = UpdateHist(h1, st1, j, MarkRendering(st1[j][1]))
            /\ sem' = Some(s)
            /\ pc' = [pc EXCEPT ![j] = "a_render"]
         \/ /\ "decode" \in AnalysisOutcomes
            /\ Fail(RenderErrorMsg("Exception", "decode")) /\ analysisFiles' = analysisFiles
         \/ /\ "copy" \in AnalysisOutcomes
            /\ Fail(RenderErrorMsg("OSError", "copy"))
            /\ analysisFiles' = analysisFiles \cup {j}

\* start_render_task -> run_with_semaphore -> async with semaphore
StartRenderTask(j) ==
    /\ pc[j] = "a_new"
    /\ LET s == GetSemaphore(sem) IN
       IF ~SemLocked(s)
       THEN RenderToAwait(j, [s EXCEPT !.value = @ - 1])
       ELSE /\ sem' = Some([s EXCEPT !.waiters = Append(@, [id |-> j, woken |-> FALSE])])
            /\ pc' = [pc EXCEPT ![j] = "a_wait"]
            /\ UNCHANGED <<audioDir, storeVars, analysisFiles>>
    /\ UNCHANGED <<call, copied, videoFiles, nextId, req, held, exc, delVars, rendered, imgVars, auxVars>>

\* the event loop resumes an acquire() whose future was set
ResumeRenderTask(j) ==
    /\ pc[j] = "a_wait"
    /\ sem # None
    /\ IsReady(sem[1], j)
    /\ RenderToAwait(j, SemResume(sem[1], j))
    /\ UNCHANGED <<call, copied, videoFiles, nextId, req, held, exc, delVars, rendered, imgVars, auxVars>>

\* run_in_executor returns (or raises); the rest of render_visualization runs,
\* then the async with block is left
FinishRenderTask(j) ==
    /\ pc[j] = "a_render"
    /\ rendered' = rendered \cup {j}
    /\ \/ \E res \in RemotionReturns :
            LET t == IF res.returncode = 0 THEN MarkCompleted(tasks[j][1])
                     ELSE MarkFailed(tasks[j][1], ExitErrorMsg(res))
            IN /\ tasks' = UpdateTask(tasks, j, t)
               /\ hist' = UpdateHist(hist, tasks, j, t)
               /\ videoFiles' = IF res.returncode = 0 THEN videoFiles \cup {j} ELSE videoFiles
       \/ LET t == MarkFailed(tasks[j][1], RenderErrorMsg("OSError", "spawn"))
          IN /\ RemotionRaises
             /\ tasks' = UpdateTask(tasks, j, t)
             /\ hist' = UpdateHist(hist, tasks, j, t)
             /\ videoFiles' = videoFiles
    /\ sem' = Some(SemRelease(sem[1]))
    /\ pc' = [pc EXCEPT ![j] = "done"]
    /\ UNCHANGED <<call, audioVars, analysisFiles, nextId, req, held, exc, delVars, imgVars, auxVars>>


\* f"Start error: {type(e).__name__}: {str(e)}"[:500]
StartErrorMsg(name, text) == Truncate("Start error: " \o name \o ": " \o text)

\* the except clause of start_render_task, entered with the slot released:
\* its update_task stores the failure, or raises as well
StartHandler(j) ==
    \/ /\ tasks' = UpdateTask(tasks, j, MarkFailed(tasks[j][1], StartErrorMsg("OSError", "save")))
       /\ hist' = UpdateHist(hist, tasks, j, MarkFailed(tasks[j][1], StartErrorMsg("OSError", "save")))
       /\ pc' = [pc EXCEPT ![j] = "done"]
    \/ /\ UNCHANGED storeVars
       /\ pc' = [pc EXCEPT ![j] = "escaped"]

\* render_func raises before its first await: a record update raises in the
\* try body of render_visualization and again in its except clause
AdmitRaises(j) ==
    /\ \/ /\ pc[j] = "a_new"
          /\ ~SemLocked(GetSemaphore(sem))
          /\ sem' = Some(SemRelease([GetSemaphore(sem) EXCEPT !.value = @ - 1]))
       \/ /\ pc[j] = "a_wait"
          /\ sem # None
          /\ IsReady(sem[1], j)
          /\ sem' = Some(SemRelease(SemResume(sem[1], j)))
    /\ StartHandler(j)
    /\ UNCHANGED <<call, audioVars, fileVars, nextId, req, held, exc, delVars, rendered, imgVars, auxVars>>

\* render_func raises after the subprocess returned: the closing record update
\* raises, and the one in the except clause too
FinishRaises(j) ==
    /\ pc[j] = "a_render"
    /\ rendered' = rendered \cup {j}
    /\ \E made \in BOOLEAN : videoFiles' = IF made THEN videoFiles \cup {j} ELSE videoFiles
    /\ sem' = Some(SemRelease(sem[1]))
    /\ StartHandler(j)
    /\ UNCHANGED <<call, audioVars, analysisFiles, nextId, req, held, exc, delVars, imgVars, auxVars>>

\* ------------------------------------- generate_image_from_audio (Celery task)

\* f"Audio file not found: {str(e)}", e raised by extract_audio_features
ImgNotFoundMsg(path) == "Audio file not found: " \o NotFoundMsg(path)

\* an AudioFeatures: tempo and spectral_centroid in hundredths, energy and
\* valence in ten-thousandths
Features ==
    [tempo |-> 12000, energy |-> 4200, valence |-> 6200, key |-> "C", mode |-> "major",
     spectral_centroid |-> 215000]

\* a slip: 80 BPM still counts as slow
TempoDesc_Inclusive(tempo) ==
    IF tempo <= 8000 THEN "slow, meditative"
    ELSE IF tempo < 12000 THEN "moderate, flowing"
    ELSE IF tempo < 15000 THEN "energetic, dynamic"
    ELSE "fast, intense"

\* if features.tempo < 80 ... elif < 120 ... elif < 150 ... else
TempoDesc(tempo) ==
    IF tempo < 8000 THEN "slow, meditative"
    ELSE IF tempo < 12000 THEN "moderate, flowing"
    ELSE IF tempo < 15000 THEN "energetic, dynamic"
    ELSE "fast, intense"

\* if features.valence < 0.3 ... elif < 0.5 ... elif < 0.7 ... else
MoodDesc(valence) ==
    IF valence < 3000 THEN "melancholic, introspective"
    ELSE IF valence < 5000 THEN "contemplative, neutral"
    ELSE IF valence < 7000 THEN "uplifting, hopeful"
    ELSE "joyful, celebratory"

\* if features.energy < 0.3 ... elif < 0.6 ... else
EnergyDesc(energy) ==
    IF energy < 3000 THEN "soft, subtle"
    ELSE IF energy < 6000 THEN "balanced, harmonious"
    ELSE "bold, vibrant"

\* if features.spectral_centroid < 2000 ... elif < 4000 ... else
ColorDesc(spectral_centroid) ==
    IF spectral_centroid < 200000 THEN "warm, deep colors"
    ELSE IF spectral_centroid < 400000 THEN "balanced color palette"
    ELSE "bright, cool colors"

\* {features.tempo:.0f}: the nearest integer, a tie going to the even one
FormatTempo(tempo) ==
    LET whole == tempo \div 100
        rest == tempo % 100
    IN ToString(IF rest > 50 \/ (rest = 50 /\ whole % 2 = 1) THEN whole + 1 ELSE whole)

\* the f-string of build_prompt_from_features
PromptText(style, tempo_desc, bpm, mood_desc, energy_desc, color_desc, key, mode) ==
    "Create a " \o style
        \o " visual artwork inspired by music with the following characteristics:\n"
        \o "- Rhythm: " \o tempo_desc \o " (" \o bpm \o " BPM)\n"
        \o "- Mood: " \o mood_desc \o "\n"
        \o "- Energy: " \o energy_desc \o "\n"
        \o "- Colors: " \o color_desc \o "\n"
        \o "- Musical key: " \o key \o " " \o mode \o "\n\n"
        \o "The artwork should visually represent the emotional and rhythmic qualities of the music,\n"
        \o "creating a synesthetic experience that captures the essence of the sound."

\* "if custom_prompt:": neither None nor the empty string
Truthy(custom_prompt) == custom_prompt # None /\ custom_prompt[1] # ""

\* build_prompt_from_features(features, style, custom_prompt)
BuildPrompt(features, style, custom_prompt) ==
    IF Truthy(custom_prompt) THEN custom_prompt[1]
    ELSE PromptText(style, TempoDesc(features.tempo), FormatTempo(features.tempo),
                    MoodDesc(features.valence), EnergyDesc(features.energy),
                    ColorDesc(features.spectral_centroid), features.key, features.mode)

ImageUrl(id) == "/images/" \o ToString(id) \o ".png"

AnalyzingMeta == [progress |-> 10, status |-> "analyzing"]
GeneratingMeta == [progress |-> 50, status |-> "generating", audio_features |-> Some(Features)]

\* the dict the task returns on success
ImgCompleted(id) ==
    [status |-> "completed", progress |-> 100, audio_features |-> Some(Features),
     generated_prompt |-> Some(BuildPrompt(Features, "abstract", None)), image_url |-> Some(ImageUrl(id)),
     error |-> None]

\* a slip: the failed dict carries no error
ImgFailed_NoError(msg) ==
    [status |-> "failed", progress |-> 0, audio_features |-> None,
     generated_prompt |-> None, image_url |-> None, error |-> None]

\* the dict the task returns from either except clause
ImgFailed(msg) ==
    [status |-> "failed", progress |-> 0, audio_features |-> None,
     generated_prompt |-> None, image_url |-> None, error |-> Some(msg)]

\* get_task_status: the ImageGenerationTask built from the backend's entry
ImgTaskStatus(id, entry) ==
    LET Answer(status, progress, features, prompt, url, error) ==
            [task_id |-> id, status |-> status, progress |-> progress,
             audio_features |-> features, generated_prompt |-> prompt,
             image_url |-> url, error |-> error]
    IN
    CASE entry.state = "PENDING" -> Answer("pending", 0, None, None, None, None)
      [] entry.state = "ANALYZING" ->
            Answer("analyzing", entry.info[1].progress, None, None, None, None)
      [] entry.state = "GENERATING" ->
            Answer("generating", entry.info[1].progress, entry.info[1].audio_features,
                   None, None, None)
      [] entry.state = "SUCCESS" ->
            IF entry.info[1].status = "failed"
            THEN Answer("failed", 0, None, None, None, entry.info[1].error)
            ELSE Answer("completed", 100, entry.info[1].audio_features,
                        entry.info[1].generated_prompt, entry.info[1].image_url, None)
      [] entry.state = "FAILURE" ->
            Answer("failed", 0, None, None, None,
                   IF entry.info # None THEN entry.info ELSE Some("Unknown error"))
      [] OTHER -> Answer("pending", 0, None, None, None, None)

\* submit_generation_task: generate_image_from_audio.delay(...)
SubmitImage(limit) ==
    /\ \E j \in Jobs :
        /\ j <= limit
        /\ ipc[j] = "none"
        /\ \A k \in 1..(j - 1) : ipc[k] # "none"
        /\ \E path \in AudioPaths : ireq' = [ireq EXCEPT ![j] = path]
        /\ ipc' = [ipc EXCEPT ![j] = "i_queued"]
    /\ UNCHANGED <<call, audioVars, img, generated, renderVars, auxVars>>

\* the task returns result: Celery stores it under state SUCCESS
ImgReturn(j, result) ==
    /\ img' = [img EXCEPT ![j] = [state |-> "SUCCESS", info |-> Some(result)]]
    /\ ipc' = [ipc EXCEPT ![j] = "done"]

\* self.update_state(state="ANALYZING", ...)
ImgAnalyzing(j) ==
    /\ ipc[j] = "i_queued"
    /\ img' = [img EXCEPT ![j] = [state |-> "ANALYZING", info |-> Some(AnalyzingMeta)]]
    /\ ipc' = [ipc EXCEPT ![j] = "i_extract"]
    /\ UNCHANGED <<call, audioVars, ireq, generated, renderVars, auxVars>>

\* extract_audio_features(audio_path)
ImgExtract(j) ==
    /\ ipc[j] = "i_extract"
    /\ IF ireq[j] \notin AudioFiles
       THEN ImgReturn(j, ImgFailed(ImgNotFoundMsg(ireq[j])))
       ELSE \/ ipc' = [ipc EXCEPT ![j] = "i_state"] /\ img' = img
            \/ ImgReturn(j, ImgFailed("decode"))
    /\ UNCHANGED <<call, audioVars, ireq, generated, renderVars, auxVars>>

\* self.update_state(state="GENERATING", ...)
ImgGenerating(j) ==
    /\ ipc[j] = "i_state"
    /\ img' = [img EXCEPT ![j] = [state |-> "GENERATING", info |-> Some(GeneratingMeta)]]
    /\ ipc' = [ipc EXCEPT ![j] = "i_generate"]
    /\ UNCHANGED <<call, audioVars, ireq, generated, renderVars, auxVars>>

\* build_prompt_from_features, get_image_generator, generator.generate
ImgGenerate(j) ==
    /\ ipc[j] = "i_generate"
    /\ generated' = generated \cup {j}
    /\ \/ ImgReturn(j, ImgCompleted(j))
       \/ \E msg \in {"provider error", LongText} : ImgReturn(j, ImgFailed(msg))
    /\ UNCHANGED <<call, audioVars, ireq, renderVars, auxVars>>

\* httpx.AsyncClient(timeout=120.0): the backend has not answered in time, the
\* client raises and the task's except clause returns the failed dict
ImgGenerateTimeout(j) ==
    /\ ipc[j] = "i_generate"
    /\ ImgReturn(j, ImgFailed("timed out"))
    /\ UNCHANGED <<call, audioVars, ireq, generated, renderVars, auxVars>>

ImageExecutor(j) ==
    \/ ImgAnalyzing(j)
    \/ ImgExtract(j)
    \/ ImgGenerating(j)
    \/ ImgGenerate(j)

\* ------------------------------------- a record update that raises

\* update_task raises (get_task's read or _save_task's write fails) inside
\* render_visualization_sync: in the try body control passes to the except
\* Exception clause, in an except clause the exception leaves the function
UpdateRaises(j) ==
    /\ pc[j] \in {"u1_save", "u2_save", "u3_save", "rf_save", "h_save"}
    /\ held' = [held EXCEPT ![j] = NoTask]
    /\ IF pc[j] = "h_save"
       THEN /\ pc' = [pc EXCEPT ![j] = "escaped"]
            /\ exc' = [exc EXCEPT ![j] = ""]
       ELSE /\ pc' = [pc EXCEPT ![j] = "h_get"]
            /\ exc' = [exc EXCEPT ![j] = RenderErrorMsg("OSError", "save")]
    /\ UNCHANGED <<call, audioVars, storeVars, fileVars, nextId, req, syncVars, rendered, imgVars, auxVars>>

\* self.update_state raises inside generate_image_from_audio: the except
\* Exception clause returns the failed dict
ImgUpdateRaises(j) ==
    /\ ipc[j] \in {"i_queued", "i_state"}
    /\ ImgReturn(j, ImgFailed("backend error"))
    /\ UNCHANGED <<call, audioVars, ireq, generated, renderVars, auxVars>>

\* ------------------------------------- the record file while it is written

\* _save_task: open(task_path, "w") has emptied the file, json.dump has not
\* yet filled it; the UpdateSave step of the same call completes the write
SaveOpen(j) ==
    /\ pc[j] \in {"u1_save", "u2_save", "u3_save", "rf_save", "h_save"}
    /\ j \notin torn
    /\ torn' = torn \cup {j}
    /\ UNCHANGED <<call, audioVars, renderVars, imgVars, resp, celVars>>

\* get_task as a reader meets the file: absent, whole, or being written
\* (json.load raises JSONDecodeError)
ReadTask(store, open, id) ==
    IF store[id] = NoTask THEN [kind |-> "absent"]
    ELSE IF id \in open THEN [kind |-> "error"]
    ELSE [kind |-> "task", task |-> store[id][1]]

\* GET /visualization/status/{task_id}
GetTaskStatus(id) ==
    /\ LET r == ReadTask(tasks, torn, id) IN
       resp' = Some([op |-> "status", id |-> id, known |-> r.kind # "absent",
                     code |-> IF r.kind = "absent" THEN 404
                              ELSE IF r.kind = "error" THEN 500 ELSE 200,
                     body |-> IF r.kind = "task" THEN {r.task} ELSE {}])
    /\ UNCHANGED <<call, audioVars, renderVars, imgVars, torn, celVars>>

\* GET /visualization/tasks: list_tasks loads every file of TASKS_DIR
ListTasksRequest ==
    /\ LET broken == \E id \in Jobs : ReadTask(tasks, torn, id).kind = "error" IN
       resp' = Some([op |-> "list", id |-> 0, known |-> TRUE,
                     code |-> IF broken THEN 500 ELSE 200,
                     body |-> IF broken THEN {} ELSE ListTasks(tasks)])
    /\ UNCHANGED <<call, audioVars, renderVars, imgVars, torn, celVars>>

\* a slip: only failed jobs are turned away
DownloadAllowed_Loose(status) == status # "failed"

\* download_video: task.status != "completed" is answered 400
DownloadAllowed(status) == status = "completed"

\* GET /visualization/download/{task_id}
DownloadVideo(id) ==
    /\ LET r == ReadTask(tasks, torn, id)
           code == IF r.kind = "absent" THEN 404
                   ELSE IF r.kind = "error" THEN 500
                   ELSE IF ~DownloadAllowed(r.task.status) THEN 400
                   ELSE IF id \notin videoFiles THEN 404
                   ELSE 200
       IN resp' = Some([op |-> "download", id |-> id, known |-> r.kind # "absent",
                        code |-> code,
                        body |-> IF code = 200 THEN {VideoUrl(id)} ELSE {}])
    /\ UNCHANGED <<call, audioVars, renderVars, imgVars, torn, celVars>>

\* GET /image-generation/status/{task_id}: AsyncResult(task_id) has a state
\* for every id, so an ImageGenerationTask is always answered
ImgGetTaskStatus(id) ==
    /\ resp' = Some([op |-> "img_status", id |-> id, known |-> ipc[id] # "none",
                     code |-> 200, body |-> {ImgTaskStatus(id, img[id])}])
    /\ polled' = [polled EXCEPT ![id] = ImgTaskStatus(id, img[id]).status]
    /\ UNCHANGED <<call, audioVars, renderVars, imgVars, torn, revoked>>

\* task_track_started: a worker takes the task off the queue
ImgStarted(j) ==
    /\ ipc[j] = "i_queued"
    /\ img[j].state = "PENDING"
    /\ img' = [img EXCEPT ![j] = [state |-> "STARTED", info |-> None]]
    /\ UNCHANGED <<call, audioVars, ipc, ireq, generated, renderVars, auxVars>>

\* a slip: a revoked task is turned away as well
CancelRefused_Revoked(state) == state \in {"SUCCESS", "FAILURE", "REVOKED"}

\* cancel_task: task_result.state in ["SUCCESS", "FAILURE"] is answered 400
CancelRefused(state) == state \in {"SUCCESS", "FAILURE"}

\* DELETE /image-generation/task/{task_id}
CancelTask(id) ==
    /\ IF CancelRefused(img[id].state)
       THEN /\ resp' = Some([op |-> "cancel", id |-> id, known |-> ipc[id] # "none",
                             code |-> 400, body |-> {}])
            /\ revoked' = revoked
       ELSE /\ resp' = Some([op |-> "cancel", id |-> id, known |-> ipc[id] # "none",
                             code |-> 200, body |-> {}])
            /\ revoked' = [revoked EXCEPT ![id] = @ \cup {ipc[id]}]
    /\ UNCHANGED <<call, audioVars, renderVars, imgVars, torn, polled>>

\* revoke(terminate=True) reaches the worker: a task that has not returned is
\* dropped or killed and recorded as REVOKED
RevokeTakesEffect(j) ==
    /\ revoked[j] # {}
    /\ ipc[j] \notin {"none", "done", "revoked", "killed"}
    /\ ipc' = [ipc EXCEPT ![j] = "revoked"]
    /\ img' = [img EXCEPT ![j] = [state |-> "REVOKED", info |-> Some("revoked")]]
    /\ UNCHANGED <<call, audioVars, ireq, generated, renderVars, auxVars>>

\* task_time_limit: the worker kills a task that runs past the hard limit and
\* records it as FAILURE
ImgTimeLimit(j) ==
    /\ ipc[j] \in {"i_extract", "i_state", "i_generate"}
    /\ ipc' = [ipc EXCEPT ![j] = "killed"]
    /\ img' = [img EXCEPT ![j] = [state |-> "FAILURE",
                                  info |-> Some("TimeLimitExceeded(600,)")]]
    /\ UNCHANGED <<call, audioVars, ireq, generated, renderVars, auxVars>>

\* result_expires: the backend drops the stored result of a finished task
ResultExpires(j) ==
    /\ ipc[j] \in {"done", "revoked", "killed"}
    /\ img[j].state # "PENDING"
    /\ img' = [img EXCEPT ![j] = [state |-> "PENDING", info |-> None]]
    /\ UNCHANGED <<call, audioVars, ipc, ireq, generated, renderVars, auxVars>>

\* the server process dies and is started again: its threads, coroutines and
\* module globals are gone, the files stay as they were
Crash ==
    /\ \E j \in Jobs : pc[j] \notin {"none", "dead"}
    /\ pc' = [j \in Jobs |-> IF pc[j] = "none" THEN "none" ELSE "dead"]
    /\ held' = [j \in Jobs |-> NoTask]
    /\ exc' = [j \in Jobs |-> ""]
    /\ sem' = None
    /\ delPc' = "idle" /\ delId' = 0 /\ delSeen' = ""
    /\ resp' = None
    /\ UNCHANGED <<call, audioVars, storeVars, fileVars, nextId, req, deleted, rendered, imgVars, torn, celVars>>

\* ------------------------------------------------------------------- specs
Next ==
    \/ CreateRenderTask(NumJobs)
    \/ \E j \in Jobs : Executor(j)
    \/ DeleteTask

Spec == Init /\ [][Next]_vars

\* a burst of submissions, no other request
NextBurst ==
    \/ CreateRenderTask(NumBurst)
    \/ \E j \in Jobs : Executor(j)

SpecBurst == Init /\ [][NextBurst]_vars

\* one job of each kind, every step succeeding or failing as its code allows
NextKinds ==
    \/ CreateRenderTask(NumPerKind)
    \/ SubmitImage(NumPerKind)
    \/ \E j \in Jobs : Executor(j)
    \/ \E j \in Jobs : ImageExecutor(j)

SpecKinds == Init /\ [][NextKinds]_vars

\* the same, where any record update may raise
NextFault ==
    \/ NextKinds
    \/ \E j \in Jobs : UpdateRaises(j)
    \/ \E j \in Jobs : ImgUpdateRaises(j)

SpecFault == Init /\ [][NextFault]_vars

\* an executor thread writing its record while requests read the store
NextStore ==
    \/ CreateRenderTask(NumPerKind)
    \/ \E j \in Jobs : Executor(j)
    \/ \E j \in Jobs : SaveOpen(j)
    \/ \E id \in Jobs : GetTaskStatus(id)
    \/ ListTasksRequest

SpecStore == Init /\ [][NextStore]_vars

\* the same, with the process dying at any point
NextCrash ==
    \/ NextStore
    \/ Crash

SpecCrash == Init /\ [][NextCrash]_vars

\* one job of each kind and the requests for status and artifact
NextApi ==
    \/ NextKinds
    \/ \E id \in Jobs : GetTaskStatus(id)
    \/ \E id \in Jobs : ImgGetTaskStatus(id)
    \/ \E id \in Jobs : DownloadVideo(id)

SpecApi == Init /\ [][NextApi]_vars

\* an image task with its worker, status requests, cancellation and expiry
NextCelery ==
    \/ SubmitImage(NumPerKind)
    \/ \E j \in Jobs : ImageExecutor(j)
    \/ \E j \in Jobs : ImgStarted(j)
    \/ \E id \in Jobs : ImgGetTaskStatus(id)
    \/ \E id \in 1..NumPerKind : CancelTask(id)
    \/ \E j \in Jobs : RevokeTakesEffect(j)
    \/ \E j \in Jobs : ImgTimeLimit(j)
    \/ \E j \in Jobs : ResultExpires(j)

SpecCelery == Init /\ [][NextCelery]_vars

\* concurrent start_render_task calls on one event loop
NextLimiter ==
    \/ SubmitAsync(NumBurst)
    \/ \E j \in Jobs : StartRenderTask(j)
    \/ \E j \in Jobs : ResumeRenderTask(j)
    \/ \E j \in Jobs : FinishRenderTask(j)

SpecLimiter == Init /\ [][NextLimiter]_vars

\* the same, where render_func may raise
NextLimiterFault ==
    \/ NextLimiter
    \/ \E j \in Jobs : AdmitRaises(j)
    \/ \E j \in Jobs : FinishRaises(j)

SpecLimiterFault == Init /\ [][NextLimiterFault]_vars

\* enough concurrent start_render_task calls for two of them to queue
NextQueue ==
    \/ SubmitAsync(NumQueue)
    \/ \E j \in Jobs : StartRenderTask(j)
    \/ \E j \in Jobs : ResumeRenderTask(j)
    \/ \E j \in Jobs : FinishRenderTask(j)

SpecQueue == Init /\ [][NextQueue]_vars

\* submissions on both paths, no deletions; every thread of the pool and every
\* ready coroutine is eventually run, every analysis and subprocess returns
NextLive ==
    \/ CreateRenderTask(NumBurst)
    \/ SubmitAsync(NumBurst)
    \/ \E j \in Jobs : Executor(j)
    \/ \E j \in Jobs : StartRenderTask(j)
    \/ \E j \in Jobs : ResumeRenderTask(j)
    \/ \E j \in Jobs : FinishRenderTask(j)

\* the step job j can take next, on whichever path it was submitted
JobStep(j) ==
    \/ Executor(j)
    \/ StartRenderTask(j)
    \/ ResumeRenderTask(j)
    \/ FinishRenderTask(j)

Fairness == \A j \in Jobs : WF_vars(JobStep(j))

SpecLive == Init /\ [][NextLive]_vars /\ Fairness

\* one job of each kind; the renderer and the generation backend answer or
\* not as they please, every step of the program's own is eventually taken
NextHang ==
    \/ CreateRenderTask(NumPerKind)
    \/ SubmitImage(NumPerKind)
    \/ \E j \in Jobs : Executor(j)
    \/ \E j \in Jobs : ImageExecutor(j)
    \/ \E j \in Jobs : ImgGenerateTimeout(j)

HangFairness ==
    \A j \in Jobs :
        /\ WF_vars(pc[j] # "render" /\ Executor(j))
        /\ WF_vars(ipc[j] # "i_generate" /\ ImageExecutor(j))
        /\ WF_vars(ImgGenerateTimeout(j))

SpecHang == Init /\ [][NextHang]_vars /\ HangFairness

\* the same job given to render_visualization_sync and, through
\* start_render_task, to render_visualization, the analysis and the renderer
\* ending for both the way the run was set up with; the jobs given to
\* start_render_task are no more than the slots, so none waits for one
TwinInit ==
    /\ StartUp
    /\ call \in {[fn |-> "render_visualization", arg |-> Some([analysis |-> a]),
                   loc |-> None, ret |-> r] :
                    a \in {"ok", "decode", "copy"},
                    r \in {None} \cup {Some(res) : res \in RemotionResults}}

NextTwin ==
    \/ CreateRenderTask(NumPerKind)
    \/ nextId >= NumPerKind /\ SubmitAsync(2 * NumPerKind)
    \/ \E j \in Jobs : Executor(j)
    \/ \E j \in Jobs : StartRenderTask(j)
    \/ \E j \in Jobs : FinishRenderTask(j)

SpecTwin == TwinInit /\ [][NextTwin]_vars

\* image tasks submitted together; nothing between .delay and the workers
\* holds a task back
NextImageBurst ==
    \/ SubmitImage(NumImages)
    \/ \E j \in Jobs : ImageExecutor(j)

SpecImageBurst == Init /\ [][NextImageBurst]_vars

\* one render job whose renderer, if it returns, returns a result fixed
\* beforehand
ExitInit ==
    /\ StartUp
    /\ call \in {[fn |-> "_run_remotion_sync", arg |-> None, loc |-> None, ret |-> Some(res)] :
                    res \in ExitResults}

NextExit ==
    \/ CreateRenderTask(NumPerKind)
    \/ \E j \in Jobs : Executor(j)

SpecExit == ExitInit /\ [][NextExit]_vars

\* ------------------------------------------------------ _detect_key

\* the Krumhansl-Schmuckler profiles, in hundredths
major_profile == <<635, 223, 348, 233, 438, 409, 252, 519, 239, 366, 229, 288>>
minor_profile == <<633, 268, 352, 538, 260, 353, 254, 475, 398, 269, 334, 317>>

\* a slip: the array is turned the other way
NpRoll_Forward(a, shift) ==
    [k \in 1..Len(a) |-> a[((k - 1 + shift + 2 * Len(a)) % Len(a)) + 1]]

\* np.roll(a, shift): the element at index k moves to index k + shift
NpRoll(a, shift) ==
    [k \in 1..Len(a) |-> a[((k - 1 - shift + 2 * Len(a)) % Len(a)) + 1]]

\* np.corrcoef(a, b)[0, 1] = num / sqrt(va * vb), kept as its three integers:
\* n * sum(x*y) - sum(x) * sum(y) is n^2 times the covariance of x and y
Corrcoef(a, b) ==
    LET RECURSIVE SumRange(_, _, _)
        SumRange(x, lo, hi) ==
            IF lo > hi THEN 0
            ELSE IF lo = hi THEN x[lo]
            ELSE SumRange(x, lo, (lo + hi) \div 2) + SumRange(x, (lo + hi) \div 2 + 1, hi)
        SumSeq(x) == SumRange(x, 1, Len(x))
        Cov(x, y) == Len(x) * SumSeq([k \in 1..Len(x) |-> x[k] * y[k]]) - SumSeq(x) * SumSeq(y)
    IN [num |-> Cov(a, b), va |-> Cov(a, a), vb |-> Cov(b, b)]

\* the correlation is nan when either array is constant
IsNan(c) == c.va = 0 \/ c.vb = 0

\* best_corr = -1
MinusOne == [num |-> 0 - 1, va |-> 1, vb |-> 1]

\* the value of c is greater than the value of d, neither being nan: the
\* squares c.num^2 * d.va * d.vb and d.num^2 * c.va * c.vb are compared
\* exactly, as numbers of limbs of four decimal digits, least significant
\* first
Exceeds(c, d) ==
    LET Limb == 10000
        BigOf(n) == <<n % Limb, (n \div Limb) % Limb, n \div (Limb * Limb)>>
        RECURSIVE Sum(_, _)
        Sum(x, n) == IF n = 0 THEN 0 ELSE x[n] + Sum(x, n - 1)
        RECURSIVE Carry(_, _)
        Carry(raw, over) ==
            IF raw = <<>> THEN <<over>>
            ELSE <<(Head(raw) + over) % Limb>>
                     \o Carry(Tail(raw), (Head(raw) + over) \div Limb)
        BigMul(a, b) ==
            Carry([k \in 1..(Len(a) + Len(b) - 1) |->
                      Sum([i \in 1..Len(a) |->
                              IF k - i + 1 \in 1..Len(b) THEN a[i] * b[k - i + 1] ELSE 0],
                          Len(a))], 0)
        BigLess(a, b) ==
            \E k \in 1..Len(a) : a[k] < b[k] /\ \A m \in (k + 1)..Len(a) : a[m] = b[m]
        Abs(n) == IF n < 0 THEN 0 - n ELSE n
        Squared(x, y) ==
            BigMul(BigMul(BigOf(Abs(x.num)), BigOf(Abs(x.num))),
                   BigMul(BigOf(y.va), BigOf(y.vb)))
    IN IF c.num > 0
       THEN d.num <= 0 \/ BigLess(Squared(d, c), Squared(c, d))
       ELSE IF c.num = 0
       THEN d.num < 0
       ELSE d.num < 0 /\ BigLess(Squared(c, d), Squared(d, c))

\* a slip: a candidate as good as the best one replaces it
CorrGreater_OrEqual(c, d) == ~IsNan(c) /\ ~IsNan(d) /\ ~Exceeds(d, c)

\* major_corr > best_corr: False whenever the new correlation is nan
CorrGreater(c, d) == ~IsNan(c) /\ ~IsNan(d) /\ Exceeds(c, d)

\* best_corr = -1; best_key = 0; best_mode = "major"
KeyStart == [i |-> 0, best_corr |-> MinusOne, best_key |-> 0, best_mode |-> "major"]

\* one pass through the body of "for i in range(12)"
KeyIteration(chroma_mean, loc) ==
    LET i == loc.i
        rotated_chroma == NpRoll(chroma_mean, 0 - i)
        major_corr == Corrcoef(rotated_chroma, major_profile)
        afterMajor == IF CorrGreater(major_corr, loc.best_corr)
                      THEN [loc EXCEPT !.best_corr = major_corr, !.best_key = i,
                                       !.best_mode = "major"]
                      ELSE loc
        minor_corr == Corrcoef(rotated_chroma, minor_profile)
        afterMinor == IF CorrGreater(minor_corr, afterMajor.best_corr)
                      THEN [afterMajor EXCEPT !.best_corr = minor_corr, !.best_key = i,
                                              !.best_mode = "minor"]
                      ELSE afterMajor
    IN [afterMinor EXCEPT !.i = i + 1]

\* mean chroma vectors: the profiles themselves, single pitch classes, a
\* major triad, a vector equal to itself a tritone away, each at every
\* rotation; a constant vector, silence, the major profile upside down
Chromas ==
    LET Pitches == 1..Len(major_profile)
        Rotations(a) == {NpRoll(a, r) : r \in 0..(Len(a) - 1)}
        OnePitch == [k \in Pitches |-> IF k = 1 THEN 1 ELSE 0]
        Triad == [k \in Pitches |-> IF k \in {1, 5, 8} THEN 1 ELSE 0]
        Tritone == [k \in Pitches |-> major_profile[k] + NpRoll(major_profile, 6)[k]]
        Flat == [k \in Pitches |-> 1]
        Silent == [k \in Pitches |-> 0]
        Upturned == [k \in Pitches |-> 700 - major_profile[k]]
    IN Rotations(major_profile) \cup Rotations(minor_profile) \cup Rotations(OnePitch)
           \cup Rotations(Triad) \cup Rotations(Tritone) \cup {Flat, Silent, Upturned}

KeyInit ==
    /\ StartUp
    /\ call \in {[fn |-> "_detect_key", arg |-> Some(c), loc |-> Some(KeyStart), ret |-> None] :
                    c \in Chromas}

\* _detect_key(chroma_mean), one iteration of its loop
DetectKeyIterate ==
    /\ call.fn = "_detect_key"
    /\ call.ret = None
    /\ call.loc[1].i < Len(major_profile)
    /\ call' = [call EXCEPT !.loc = Some(KeyIteration(call.arg[1], call.loc[1]))]
    /\ UNCHANGED <<renderVars, imgVars, auxVars>>

\* return best_key, best_mode
DetectKeyReturn ==
    /\ call.fn = "_detect_key"
    /\ call.ret = None
    /\ call.loc[1].i = Len(major_profile)
    /\ call' = [call EXCEPT !.ret = Some(<<call.loc[1].best_key, call.loc[1].best_mode>>)]
    /\ UNCHANGED <<renderVars, imgVars, auxVars>>

NextKey ==
    \/ DetectKeyIterate
    \/ DetectKeyReturn

SpecKey == KeyInit /\ [][NextKey]_vars

\* -------------------------------------- extract_audio_features: valence

Min(a, b) == IF a < b THEN a ELSE b

\* mode_valence = 0.7 if mode == "major" else 0.3, in tenths
ModeValence(mode) == IF mode = "major" THEN 7 ELSE 3

\* tempo_valence = min(1.0, (tempo_value - 60) / 120), in 120ths
TempoValence(tempo_value) == Min(120, tempo_value - 60)

\* valence = 0.6 * mode_valence + 0.4 * tempo_valence;
\* valence = max(0.0, min(1.0, valence)), in 3000ths
Valence(mode, tempo_value) ==
    Max(0, Min(3000, 180 * ModeValence(mode) + 10 * TempoValence(tempo_value)))

\* tempos in whole BPM, as beat_track may report them
MaxTempo == 240
Modes == {"major", "minor"}

ValenceInit ==
    /\ StartUp
    /\ call \in {[fn |-> "valence", arg |-> Some([mode |-> m, tempo |-> t]), loc |-> None,
                   ret |-> None] : m \in Modes, t \in 0..MaxTempo}

EstimateValence ==
    /\ call.fn = "valence"
    /\ call.ret = None
    /\ call' = [call EXCEPT !.ret = Some(Valence(call.arg[1].mode, call.arg[1].tempo))]
    /\ UNCHANGED <<renderVars, imgVars, auxVars>>

SpecValence == ValenceInit /\ [][EstimateValence]_vars

\* ------------------------------------------- build_prompt_from_features

\* features on and beside every threshold
PromptFeatures ==
    LET PromptTempos == {0, 7999, 8000, 8050, 8150, 11999, 12000, 14999, 15000}
        PromptValences == {0, 2999, 3000, 4999, 5000, 6999, 7000, 10000}
        PromptEnergies == {0, 2999, 3000, 5999, 6000, 10000}
        PromptCentroids == {0, 199999, 200000, 399999, 400000}
    IN {[tempo |-> t, energy |-> e, valence |-> v, key |-> "F#", mode |-> m,
         spectral_centroid |-> c] :
           t \in PromptTempos, e \in PromptEnergies, v \in PromptValences,
           m \in Modes, c \in PromptCentroids}

\* two styles, and a request with no custom_prompt, with an empty one and
\* with a text
PromptStyles == {"abstract", "landscape"}
CustomPrompts == {None, Some(""), Some("a red barn at dusk")}

PromptInit ==
    /\ StartUp
    /\ call \in {[fn |-> "build_prompt_from_features",
                   arg |-> Some([features |-> f, style |-> st, custom_prompt |-> cp]),
                   loc |-> None, ret |-> None] :
                    f \in PromptFeatures, st \in PromptStyles, cp \in CustomPrompts}

BuildPromptCall ==
    /\ call.fn = "build_prompt_from_features"
    /\ call.ret = None
    /\ call' = [call EXCEPT !.ret = Some(BuildPrompt(call.arg[1].features, call.arg[1].style,
                                                     call.arg[1].custom_prompt))]
    /\ UNCHANGED <<renderVars, imgVars, auxVars>>

SpecPrompt == PromptInit /\ [][BuildPromptCall]_vars

\* ------------------------------------- update_task and delete_task, called
\* the records TASKS_DIR may hold for an id when the process starts
StoredRecords(id) ==
    {NewTask(id), MarkAnalyzing(NewTask(id)), MarkCompleted(NewTask(id)),
     MarkFailed(NewTask(id), NotFoundMsg("missing.mp3"))}

\* the arguments of an update_task or delete_task call
StoreCalls ==
    {[fn |-> "update_task",
      arg |-> Some([task_id |-> id, status |-> st, progress |-> pr,
                    video_path |-> vp, error |-> er]),
      loc |-> None, ret |-> None] :
        id \in 1..NumJobs,
        st \in {None, Some("rendering")}, pr \in {None, Some(30)},
        vp \in {None, Some("/videos/other.mp4")}, er \in {None, Some("Render error: x")}}
    \cup {[fn |-> "delete_task", arg |-> Some([task_id |-> id]),
           loc |-> None, ret |-> None] : id \in 1..NumJobs}

\* the process starts over a TASKS_DIR left by earlier runs
StoreInit ==
    /\ tasks \in {[j \in Jobs |-> IF j \in DOMAIN f THEN f[j] ELSE NoTask] :
                    f \in [1..NumJobs -> {NoTask} \cup
                            UNION {{<<r>> : r \in StoredRecords(id)} : id \in 1..NumJobs}]}
    /\ \A j \in 1..NumJobs : tasks[j] # NoTask => tasks[j][1].task_id = j
    /\ hist = [j \in Jobs |-> IF tasks[j] = NoTask THEN <<>> ELSE <<Stored(tasks[j][1])>>]
    /\ analysisFiles = {j \in 1..NumJobs : tasks[j] # NoTask /\ tasks[j][1].status = "completed"}
    /\ videoFiles = analysisFiles
    /\ nextId = NumJobs
    /\ Idle
    /\ call \in StoreCalls

\* a slip: update_task stores a record for an id that has none
UpdateTaskCall_Creates ==
    /\ call.fn = "update_task"
    /\ call.ret = None
    /\ LET a == call.arg[1]
           task == IF GetTask(tasks, a.task_id) = None THEN NewTask(a.task_id)
                   ELSE GetTask(tasks, a.task_id)[1]
           t == ApplyUpdate(task, a.status, a.progress, a.video_path, a.error)
       IN /\ tasks' = SaveTask(tasks, t)
          /\ hist' = Record(hist, t)
          /\ call' = [call EXCEPT !.ret = Some(Some(t))]
    /\ UNCHANGED <<audioVars, fileVars, nextId, req, pc, held, exc, syncVars, rendered, imgVars, auxVars>>

\* update_task(task_id, status, progress, video_path, error), from its first
\* line to its return
UpdateTaskCall ==
    /\ call.fn = "update_task"
    /\ call.ret = None
    /\ LET a == call.arg[1]
           task == GetTask(tasks, a.task_id)
       IN IF task = None
          THEN /\ call' = [call EXCEPT !.ret = Some(None)]
               /\ UNCHANGED storeVars
          ELSE LET t == ApplyUpdate(task[1], a.status, a.progress, a.video_path, a.error)
               IN /\ tasks' = SaveTask(tasks, t)
                  /\ hist' = Record(hist, t)
                  /\ call' = [call EXCEPT !.ret = Some(Some(t))]
    /\ UNCHANGED <<audioVars, fileVars, nextId, req, pc, held, exc, syncVars, rendered, imgVars, auxVars>>

\* task_manager.delete_task(task_id), from its first line to its return
DeleteTaskCall ==
    /\ call.fn = "delete_task"
    /\ call.ret = None
    /\ tasks' = DeleteTaskFile(tasks, call.arg[1].task_id)
    /\ call' = [call EXCEPT !.ret = Some(GetTask(tasks, call.arg[1].task_id) # None)]
    /\ UNCHANGED <<audioVars, hist, fileVars, nextId, req, pc, held, exc, syncVars, rendered, imgVars, auxVars>>

SpecCalls == StoreInit /\ [][UpdateTaskCall \/ DeleteTaskCall]_vars

\* ------------------------------- _ensure_audio_available, step by step
\* analyze_audio and save_analysis_to_json of render_visualization_sync
AnalyzeAudio(j) ==
    /\ pc[j] = "analyze"
    /\ IF req[j] \notin AudioFiles
       THEN /\ exc' = [exc EXCEPT ![j] = NotFoundMsg(req[j])]
            /\ pc' = [pc EXCEPT ![j] = "h_get"]
            /\ analysisFiles' = analysisFiles
       ELSE \/ /\ analysisFiles' = analysisFiles \cup {j}
               /\ pc' = [pc EXCEPT ![j] = "e_check"]
               /\ exc' = exc
            \/ /\ analysisFiles' = analysisFiles
               /\ exc' = [exc EXCEPT ![j] = RenderErrorMsg("Exception", "decode")]
               /\ pc' = [pc EXCEPT ![j] = "h_get"]
    /\ UNCHANGED <<call, audioVars, storeVars, videoFiles, nextId, req, held, syncVars, rendered, imgVars, auxVars>>

\* a slip: the copy is made whether or not dest exists
EnsureCheck_Always(j) ==
    /\ pc[j] = "e_check"
    /\ pc' = [pc EXCEPT ![j] = "e_open"]
    /\ UNCHANGED <<call, audioVars, storeVars, fileVars, nextId, req, held, exc, syncVars, rendered, imgVars, auxVars>>

\* if dest.exists(): return
EnsureCheck(j) ==
    /\ pc[j] = "e_check"
    /\ pc' = [pc EXCEPT ![j] = IF audioDir[req[j]] # None THEN "u2_get" ELSE "e_open"]
    /\ UNCHANGED <<call, audioVars, storeVars, fileVars, nextId, req, held, exc, syncVars, rendered, imgVars, auxVars>>

\* shutil.copy2 opens dest for writing, which empties it, or raises
CopyOpen(j) ==
    /\ pc[j] = "e_open"
    /\ \/ /\ audioDir' = [audioDir EXCEPT ![req[j]] = Some({})]
          /\ copied' = [copied EXCEPT ![j] = 0]
          /\ pc' = [pc EXCEPT ![j] = "e_copy"]
          /\ exc' = exc
       \/ /\ exc' = [exc EXCEPT ![j] = RenderErrorMsg("OSError", "copy")]
          /\ pc' = [pc EXCEPT ![j] = "h_get"]
          /\ UNCHANGED audioVars
    /\ UNCHANGED <<call, storeVars, fileVars, nextId, req, held, syncVars, rendered, imgVars, auxVars>>

\* shutil.copy2 writes its next chunk at its own offset, and returns after
\* the last
CopyChunk(j) ==
    /\ pc[j] = "e_copy"
    /\ copied[j] < AudioChunks
    /\ audioDir' = [audioDir EXCEPT ![req[j]] = Some(@[1] \cup {copied[j] + 1})]
    /\ copied' = [copied EXCEPT ![j] = @ + 1]
    /\ pc' = [pc EXCEPT ![j] = IF copied[j] + 1 = AudioChunks THEN "u2_get" ELSE "e_copy"]
    /\ UNCHANGED <<call, storeVars, fileVars, nextId, req, held, exc, syncVars, rendered, imgVars, auxVars>>

\* executor threads of render_visualization_sync, the audio copied in steps
NextCopy ==
    \/ CreateRenderTask(NumJobs)
    \/ \E j \in Jobs :
          \/ AnalyzingGet(j) \/ AnalyzingSave(j)
          \/ AnalyzeAudio(j)
          \/ EnsureCheck(j) \/ CopyOpen(j) \/ CopyChunk(j)
          \/ RenderingGet(j) \/ RenderingSave(j)
          \/ RunRemotion(j)
          \/ ExitFailedGet(j) \/ ExitFailedSave(j)
          \/ CompletedGet(j) \/ CompletedSave(j)
          \/ HandlerGet(j) \/ HandlerSave(j)

SpecCopy == Init /\ [][NextCopy]_vars

\* ------------------------------------------------ the renderer's command
\* VisualizationRequest.style and .resolution: the values the schema accepts
Styles == {"circular", "radial", "bars", "particle"}
Resolutions == {"720p", "1080p", "4k"}

RESOLUTION_MAP ==
    [r \in Resolutions |->
        CASE r = "720p" -> <<1280, 720>>
          [] r = "1080p" -> <<1920, 1080>>
          [] r = "4k" -> <<3840, 2160>>]

composition_map ==
    [st \in {"circular", "radial", "bars"} |->
        CASE st = "circular" -> "CircularWaveform"
          [] st = "radial" -> "RadialWaveform"
          [] st = "bars" -> "BarWaveform"]

\* composition_map.get(request.style, "CircularWaveform")
Composition(style) ==
    IF style \in DOMAIN composition_map THEN composition_map[style]
    ELSE "CircularWaveform"

\* the parts of cmd in render_visualization_sync
RenderCommand(task_id, request) ==
    LET size == IF request.resolution \in DOMAIN RESOLUTION_MAP
                THEN RESOLUTION_MAP[request.resolution] ELSE <<1920, 1080>>
    IN [composition |-> Composition(request.style),
        output |-> ToString(task_id) \o ".mp4",
        props |-> [dataFile |-> "data/" \o ToString(task_id) \o ".json",
                   audioSrc |-> "audio/" \o request.audio_path,
                   colorScheme |-> request.color_scheme],
        width |-> size[1], height |-> size[2], codec |-> "h264"]

CommandInit ==
    /\ StartUp
    /\ call \in {[fn |-> "render_command",
                   arg |-> Some([task_id |-> id,
                                 request |-> [audio_path |-> path, style |-> st,
                                              color_scheme |-> col, resolution |-> r]]),
                   loc |-> None, ret |-> None] :
                    id \in 1..NumJobs, path \in AudioPaths, st \in Styles,
                    col \in {"blue", "sunset"}, r \in Resolutions}

BuildCommand ==
    /\ call.fn = "render_command"
    /\ call.ret = None
    /\ call' = [call EXCEPT !.ret = Some(RenderCommand(call.arg[1].task_id,
                                                       call.arg[1].request))]
    /\ UNCHANGED <<renderVars, imgVars, auxVars>>

SpecCommand == CommandInit /\ [][BuildCommand]_vars

\* ------------------------------------------------------------ properties
HasTask(j) == tasks[j] # None
StatusOf(j) == tasks[j][1].status
NonTerminal == {"pending", "analyzing", "rendering"}

\* the render_func executions that have started and not finished
Running == {j \in Jobs : pc[j] = "a_render"}

\* C1: however many start_render_task calls run and however they interleave,
\* at most MAX_CONCURRENT_RENDERS (2) render_func executions are under way.
C1_AtMostCapacityRunning ==
    /\ Cardinality(Running) <= MAX_CONCURRENT_RENDERS
    /\ sem # None => sem[1].value >= 0

C1_Witness ==
    /\ Cardinality(Running) = MAX_CONCURRENT_RENDERS
    /\ \E j \in Jobs : pc[j] = "a_wait"

\* C2: of the jobs submitted through create_render_task, at most
\* MAX_CONCURRENT_RENDERS (2) records have status 'rendering' at the same time.
C2_AtMostTwoRendering ==
    Cardinality({j \in Jobs : HasTask(j) /\ StatusOf(j) = "rendering"})
        <= MAX_CONCURRENT_RENDERS

\* C3: with every thread and coroutine eventually run and every analysis and
\* render returning, each submitted render job ends completed or failed, and
\* no job stays queued for a slot forever.
\* (a job not yet settled at some point on makes Settled false there, so
\* Settled recurring for ever says each submitted job is settled in the end)
Settled ==
    \A j \in Jobs :
        pc[j] # "none" => pc[j] # "a_wait" /\ HasTask(j) /\ StatusOf(j) \in Terminal

C3_EventuallyTerminal == []<>Settled

C3_Witness ==
    \E j, k \in Jobs :
        /\ pc[j] = "a_wait" /\ sem # None /\ IsWoken(sem[1], j)
        /\ pc[k] = "done" /\ HasTask(k) /\ StatusOf(k) \in Terminal

\* C4: every stored record has video_path set and error null when completed,
\* error set and video_path null when failed, and both null when pending,
\* analyzing or rendering.
C4_ResultErrorExclusive ==
    \A j \in Jobs : HasTask(j) =>
        LET t == tasks[j][1] IN
        /\ t.status = "completed" => t.video_path # None /\ t.error = None
        /\ t.status = "failed" => t.error # None /\ t.video_path = None
        /\ t.status \in NonTerminal => t.video_path = None /\ t.error = None

C4_Witness ==
    \E j, k \in Jobs :
        /\ HasTask(j) /\ StatusOf(j) = "completed"
        /\ tasks[j][1].video_path = Some(VideoUrl(j))
        /\ HasTask(k) /\ StatusOf(k) = "failed"
        /\ tasks[k][1].error # None

\* the edges of the status state machine
Edges ==
    {<<"pending", "analyzing">>, <<"analyzing", "rendering">>,
     <<"rendering", "completed">>, <<"pending", "failed">>,
     <<"analyzing", "failed">>, <<"rendering", "failed">>}

StatusPath(h) ==
    /\ h # <<>> => h[1].status = "pending"
    /\ \A i \in 1..(Len(h) - 1) : <<h[i].status, h[i + 1].status>> \in Edges

PassedThroughStages(h) ==
    \A c \in 1..Len(h) : h[c].status = "completed" =>
        \E a, r \in 1..Len(h) :
            a < r /\ r < c /\ h[a].status = "analyzing" /\ h[r].status = "rendering"

C5_EdgeStep ==
    \A j \in Jobs :
        (HasTask(j) /\ tasks'[j] # None /\ tasks'[j][1].status # StatusOf(j))
            => <<StatusOf(j), tasks'[j][1].status>> \in Edges

\* C5: the stored status of a job changes only along pending->analyzing,
\* analyzing->rendering, rendering->completed and non-terminal->failed;
\* completed and failed are never left, and a completed job has been
\* analyzing and then rendering before.
C5_StatusEdges ==
    /\ [](\A j \in Jobs :
            /\ StatusPath(hist[j])
            /\ PassedThroughStages(hist[j])
            /\ HasTask(j) => StatusOf(j) = hist[j][Len(hist[j])].status)
    /\ [][C5_EdgeStep]_vars

C5_Witness ==
    \E j, k \in Jobs :
        /\ [i \in 1..Len(hist[j]) |-> hist[j][i].status]
              = <<"pending", "analyzing", "rendering", "completed">>
        /\ [i \in 1..Len(hist[k]) |-> hist[k][i].status]
              = <<"pending", "analyzing", "failed">>

C6_ProgressOfStatus ==
    \A j \in Jobs : HasTask(j) =>
        LET t == tasks[j][1] IN
        /\ t.status \in {"pending", "failed"} => t.progress = 0
        /\ t.progress = 100 <=> t.status = "completed"
        /\ t.status = "analyzing" => t.progress = 10
        /\ t.status = "rendering" => t.progress = 30

C6_NonDecreasing(h) ==
    \A i \in 1..(Len(h) - 1) :
        h[i + 1].status # "failed" => h[i + 1].progress >= h[i].progress

C6_ProgressStep ==
    \A j \in Jobs :
        (HasTask(j) /\ tasks'[j] # None /\ tasks'[j][1].status # "failed")
            => tasks'[j][1].progress >= tasks[j][1].progress

\* C6: progress is 0 when pending or failed, 100 exactly when completed, 10
\* when analyzing, 30 when rendering, and the stored progress of a job that
\* has not failed never decreases.
C6_Progress ==
    /\ [](C6_ProgressOfStatus /\ \A j \in Jobs : C6_NonDecreasing(hist[j]))
    /\ [][C6_ProgressStep]_vars

C6_Witness ==
    \E j, k \in Jobs :
        /\ HasTask(j) /\ StatusOf(j) = "rendering" /\ tasks[j][1].progress = 30
        /\ HasTask(k) /\ StatusOf(k) = "completed" /\ tasks[k][1].progress = 100

\* C7: a delete request is answered 200 only when the status it read is
\* completed or failed; for pending, analyzing and rendering it is rejected.
C7_DeleteOnlyTerminal ==
    /\ delPc = "cleanup" => delSeen \in Terminal
    /\ \A j \in Jobs : deleted[j] \subseteq Terminal

\* C8: once a delete of a completed or failed job was answered 200, get_task
\* returns None for the id, list_tasks does not hold it, and neither its
\* analysis JSON nor its video file exists.
C8_DeletedIsGone ==
    \A j \in Jobs : deleted[j] \cap Terminal # {} =>
        /\ GetTask(tasks, j) = None
        /\ \A t \in ListTasks(tasks) : t.task_id # j
        /\ j \notin analysisFiles
        /\ j \notin videoFiles

C8_Witness ==
    \E j, k \in Jobs :
        /\ "completed" \in deleted[j] /\ rendered = {j, k}
        /\ "failed" \in deleted[k]

\* what GET /image-generation/status answers for image task j
Answer(j) == ImgTaskStatus(j, img[j])

\* C9: whatever raises inside a job executor, a record update included, the
\* executor returns normally and leaves its job failed with error set and
\* progress 0, unless it completed; no exception leaves the executor.
C9_FaultsCaught ==
    \A j \in Jobs :
        /\ pc[j] # "escaped"
        /\ pc[j] = "done" /\ StatusOf(j) # "completed" =>
              StatusOf(j) = "failed" /\ tasks[j][1].error # None /\ tasks[j][1].progress = 0
        /\ ipc[j] = "done" /\ Answer(j).status # "completed" =>
              Answer(j).status = "failed" /\ Answer(j).error # None /\ Answer(j).progress = 0

\* path occurs in the text msg
Mentions(msg, path) ==
    \E i \in 1..(Len(msg) - Len(path) + 1) : SubSeq(msg, i, i + Len(path) - 1) = path

\* C10: a render job or image job submitted with an audio path that does not
\* exist ends failed with an error naming the path, progress 0 and no result
\* field, and the renderer or generator is never called for it.
C10_MissingAudioFails ==
    \A j \in Jobs :
        /\ req[j] # "" /\ req[j] \notin AudioFiles =>
            /\ j \notin rendered
            /\ pc[j] = "done" =>
                /\ StatusOf(j) = "failed" /\ tasks[j][1].progress = 0
                /\ tasks[j][1].error # None /\ Mentions(tasks[j][1].error[1], req[j])
                /\ tasks[j][1].video_path = None
        /\ ireq[j] # "" /\ ireq[j] \notin AudioFiles =>
            /\ j \notin generated
            /\ ipc[j] = "done" =>
                /\ Answer(j).status = "failed" /\ Answer(j).progress = 0
                /\ Answer(j).error # None /\ Mentions(Answer(j).error[1], ireq[j])
                /\ Answer(j).audio_features = None
                /\ Answer(j).generated_prompt = None
                /\ Answer(j).image_url = None
                /\ img[j].info[1] = ImgFailed(Answer(j).error[1])

C10_Witness ==
    \E j, k \in Jobs :
        /\ req[j] = "missing.mp3" /\ pc[j] = "done" /\ StatusOf(j) = "failed"
        /\ ireq[k] = "missing.mp3" /\ ipc[k] = "done" /\ Answer(k).status = "failed"

\* C11: the error of every failed job, as stored for a render job and as
\* answered by get_task_status for an image job, has at most 500 characters.
C11_ErrorBounded ==
    \A j \in Jobs :
        /\ HasTask(j) /\ StatusOf(j) = "failed" =>
              Len(tasks[j][1].error[1]) <= MaxErrorLen
        /\ Answer(j).status = "failed" =>
              Len(Answer(j).error[1]) <= MaxErrorLen

\* the waiters whose future was set: the slot is theirs, they have not resumed
Woken == {j \in Jobs : sem # None /\ IsWoken(sem[1], j)}

\* C12: whether render_func returns or raises, its slot is given back: the
\* free slots and the jobs holding a slot always add up to
\* MAX_CONCURRENT_RENDERS.
C12_SlotsConserved ==
    sem # None =>
        sem[1].value + Cardinality(Running) + Cardinality(Woken) = MAX_CONCURRENT_RENDERS

C12_Witness ==
    /\ sem # None /\ sem[1].value = MAX_CONCURRENT_RENDERS
    /\ \E j, k \in Jobs :
        /\ pc[j] = "escaped"
        /\ pc[k] = "done" /\ StatusOf(k) = "completed"

\* the semaphore's queue of waiters, oldest first
Queue == IF sem = None THEN <<>> ELSE sem[1].waiters
QueuePos(j) == CHOOSE i \in 1..Len(Queue) : Queue[i].id = j

\* slots go to the waiters oldest first: those given one head the queue
WokenIsPrefix ==
    \A i, k \in 1..Len(Queue) : i < k /\ Queue[k].woken => Queue[i].woken

C13_FifoStep ==
    \A j \in Jobs :
        \* a job that starts to wait joins the queue at its tail
        /\ pc[j] = "a_new" /\ pc'[j] = "a_wait" =>
              sem'[1].waiters = Append(Queue, [id |-> j, woken |-> FALSE])
        \* a newcomer is not admitted while a job is queued
        /\ pc[j] = "a_new" /\ pc'[j] \notin {"a_new", "a_wait"} => Queue = <<>>
        \* and the waiter whose render_func starts is the one queued longest
        /\ pc[j] = "a_wait" /\ pc'[j] # "a_wait" => QueuePos(j) = 1

\* C13: jobs that had to wait are admitted in the order in which they called
\* run_with_semaphore: none queued earlier is admitted after one queued later.
C13_Fifo == []WokenIsPrefix /\ [][C13_FifoStep]_vars

C13_Witness ==
    /\ Len(Queue) = 2
    /\ Queue[1].woken /\ ~Queue[2].woken
    /\ Queue[1].id < Queue[2].id

\* C14: once _get_semaphore has constructed the semaphore, every later call
\* returns that same object: it is never constructed again nor dropped.
C14_OneInstance ==
    /\ [](sem # None => sem[1].instance = 1)
    /\ [][sem # None => sem' # None /\ sem'[1].instance = sem[1].instance]_vars

C14_Witness ==
    /\ sem # None /\ sem[1].instance = 1 /\ sem[1].value = MAX_CONCURRENT_RENDERS
    /\ \A j \in 1..NumBurst : pc[j] = "done"

\* C15: a get_task or list_tasks that runs while an executor thread updates a
\* record is answered with whole records that were stored, never with a
\* read error or a partly written record.
C15_ReadsWhole ==
    resp # None /\ resp[1].op \in {"status", "list"} =>
        /\ resp[1].code # 500
        /\ \A t \in resp[1].body :
              \E i \in 1..Len(hist[t.task_id]) : hist[t.task_id][i] = Stored(t)

\* C16: after the process died and restarted, get_task for every job created
\* before returns a well-formed record holding the last status written.
C16_RecordSurvivesCrash ==
    \A j \in Jobs : pc[j] = "dead" =>
        LET r == ReadTask(tasks, torn, j) IN
        /\ r.kind = "task"
        /\ Stored(r.task) = hist[j][Len(hist[j])]

\* C17: a status request for a job id that was never submitted (or whose
\* record is gone) is answered not-found, for render jobs and image jobs
\* alike, and carries no job.
C17_AbsentIsNotFound ==
    resp # None /\ resp[1].op \in {"status", "img_status"} /\ ~resp[1].known =>
        resp[1].code = 404 /\ resp[1].body = {}

\* C18: download_video serves the file only for a job whose stored status is
\* completed; every other request is answered with an error and no file.
C18_DownloadOnlyCompleted ==
    resp # None /\ resp[1].op = "download" =>
        /\ resp[1].code = 200 =>
              /\ HasTask(resp[1].id) /\ StatusOf(resp[1].id) = "completed"
              /\ resp[1].id \in videoFiles
              /\ resp[1].body = {VideoUrl(resp[1].id)}
        /\ resp[1].code # 200 => resp[1].body = {}
        /\ ~resp[1].known => resp[1].code = 404

C18_Witness ==
    /\ resp # None /\ resp[1].op = "download" /\ resp[1].code = 200
    /\ \E j \in Jobs : hist[j] # <<>> /\ hist[j][Len(hist[j])].status = "completed"

\* C19: cancel_task issues a revoke only for an image task that has not
\* ended; for one that returned its result or was revoked before, the
\* request is refused and no revoke is issued.
C19_CancelOnlyNonTerminal ==
    \A j \in Jobs : revoked[j] \cap {"done", "revoked", "killed"} = {}

\* the order of the statuses of an image job
Rank(status) ==
    CASE status = "pending" -> 0
      [] status = "analyzing" -> 1
      [] status = "generating" -> 2
      [] OTHER -> 3

C20_PollStep ==
    \A j \in Jobs :
        polled[j] # "" /\ polled'[j] # polled[j] =>
            /\ polled[j] \notin Terminal
            /\ Rank(polled'[j]) > Rank(polled[j])

\* C20: the statuses answered by successive status requests for one image
\* job never move backward in pending < analyzing < generating <
\* {completed, failed}, and after completed or failed the answer stays.
C20_PollsMonotonic == [][C20_PollStep]_vars

\* C21: whatever the backend holds for an image task, the status answered is
\* failed only with progress 0, an error and no result field; completed only
\* with progress 100, no error and an image_url; pending only with progress 0
\* and neither result nor error.
C21_ProjectionShape ==
    \A j \in Jobs :
        LET a == Answer(j)
            NoResult == /\ a.audio_features = None
                        /\ a.generated_prompt = None
                        /\ a.image_url = None
        IN
        /\ a.status = "failed" => a.progress = 0 /\ a.error # None /\ NoResult
        /\ a.status = "completed" =>
              a.progress = 100 /\ a.error = None /\ a.image_url # None
        /\ a.status = "pending" => a.progress = 0 /\ a.error = None /\ NoResult

C21_Witness ==
    \E j \in Jobs :
        /\ img[j].state = "FAILURE" /\ Answer(j).status = "failed"
        /\ polled[j] = "generating"

C22_WriterStep ==
    \A j \in Jobs :
        \* an executor is started for an id only by the submission creating it
        /\ pc'[j] = "queued" /\ pc[j] # "queued" =>
              pc[j] = "none" /\ tasks[j] = NoTask /\ hist[j] = <<>>
        \* a record is written only in a step of its own executor
        /\ tasks'[j] # tasks[j] /\ tasks'[j] # NoTask =>
              /\ pc'[j] # pc[j]
              /\ \A k \in Jobs \ {j} : pc'[k] = pc[k] /\ tasks'[k] = tasks[k]

\* C22: for every job id one executor is started, by the submission that
\* created the record, and every write of the record is a step of that
\* executor; no other executor writes it.
C22_SingleWriter == [][C22_WriterStep]_vars

C22_Witness ==
    \E j, k \in Jobs :
        /\ j # k
        /\ pc[j] = "u2_save" /\ pc[k] = "u3_save"
        /\ Len(hist[j]) = 2 /\ Len(hist[k]) = 3

\* C23: a job waiting in 'rendering' or 'generating' for an adapter that never
\* answers is eventually failed, with an error and progress 0.
C23_HungJobFails ==
    \A j \in Jobs :
        /\ pc[j] = "render" ~>
              \/ j \in rendered
              \/ /\ tasks[j] # NoTask
                 /\ StatusOf(j) = "failed"
                 /\ tasks[j][1].error # None /\ tasks[j][1].progress = 0
        /\ ipc[j] = "i_generate" ~>
              \/ j \in generated
              \/ /\ ImgTaskStatus(j, img[j]).status = "failed"
                 /\ ImgTaskStatus(j, img[j]).error # None
                 /\ ImgTaskStatus(j, img[j]).progress = 0

\* the image half alone
C23_HungImageFails ==
    \A j \in Jobs :
        ipc[j] = "i_generate" ~>
            j \in generated \/ ImgTaskStatus(j, img[j]).status = "failed"

\* the r for which chroma[(k + r) mod 12] = profile[k] at every k, if any
RotatedBy(chroma, profile) ==
    {r \in 0..(Len(profile) - 1) :
        \A k \in 0..(Len(profile) - 1) :
            chroma[((k + r) % Len(profile)) + 1] = profile[k + 1]}

\* C24: a chroma vector that is the major profile rotated by r is detected
\* as key r, major.
C24_RotatedMajorDetected ==
    call.fn = "_detect_key" /\ call.ret # None =>
        \A r \in RotatedBy(call.arg[1], major_profile) : call.ret[1] = <<r, "major">>

C24_Witness ==
    /\ call.fn = "_detect_key"
    /\ call.ret = Some(<<7, "major">>)
    /\ 7 \in RotatedBy(call.arg[1], major_profile)

\* the 24 candidates in the order they are tried, and their correlations
Candidates == 0..(2 * Len(major_profile) - 1)
Candidate(key, mode) == 2 * key + (IF mode = "major" THEN 0 ELSE 1)
CandidateCorr(chroma, c) ==
    LET k == c \div 2
        rotated == [n \in 1..Len(chroma) |-> chroma[((n - 1 + k) % Len(chroma)) + 1]]
    IN Corrcoef(rotated, IF c % 2 = 0 THEN major_profile ELSE minor_profile)

\* C25: the candidate returned has the highest correlation of the 24, and
\* among equals it is the first in the order key 0 major, key 0 minor, key 1
\* major, ...
C25_HighestFirst ==
    call.fn = "_detect_key" /\ call.ret # None =>
        LET chroma == call.arg[1]
            w == Candidate(call.ret[1][1], call.ret[1][2])
            best == CandidateCorr(chroma, w)
        IN IF IsNan(best) THEN w = 0
           ELSE \A c \in Candidates :
                   /\ ~Exceeds(CandidateCorr(chroma, c), best)
                   /\ c < w => Exceeds(best, CandidateCorr(chroma, c))

C25_Witness ==
    /\ call.fn = "_detect_key" /\ call.ret # None
    /\ LET chroma == call.arg[1]
           w == Candidate(call.ret[1][1], call.ret[1][2])
           best == CandidateCorr(chroma, w)
       IN /\ ~IsNan(best)
          /\ \E c \in Candidates :
                c > w /\ ~Exceeds(best, CandidateCorr(chroma, c))

\* C26: valence = clamp01(0.6 * m + 0.4 * clamp01((tempo - 60) / 120)) with
\* m = 0.7 for major and 0.3 for minor, at every tempo.
C26_ValenceFormula ==
    call.fn = "valence" /\ call.ret # None =>
        LET m == IF call.arg[1].mode = "major" THEN 7 ELSE 3
            t == Max(0, Min(120, call.arg[1].tempo - 60))
        IN call.ret[1] = Max(0, Min(3000, 180 * m + 10 * t))

\* the description of the bucket a value falls in: bounds are the lower ends
\* of all buckets but the first
Bucket(value, bounds, names) == names[1 + Cardinality({b \in bounds : value >= b})]

\* C27: without a custom prompt the prompt is a function of the features and
\* the style alone, naming the tempo, valence, energy and centroid buckets,
\* a value on a boundary falling in the upper bucket.
C27_PromptBuckets ==
    call.fn = "build_prompt_from_features" /\ call.ret # None
        /\ call.arg[1].custom_prompt = None =>
        LET f == call.arg[1].features IN
        call.ret[1] =
            PromptText(call.arg[1].style,
                Bucket(f.tempo, {8000, 12000, 15000},
                       <<"slow, meditative", "moderate, flowing",
                         "energetic, dynamic", "fast, intense">>),
                FormatTempo(f.tempo),
                Bucket(f.valence, {3000, 5000, 7000},
                       <<"melancholic, introspective", "contemplative, neutral",
                         "uplifting, hopeful", "joyful, celebratory">>),
                Bucket(f.energy, {3000, 6000},
                       <<"soft, subtle", "balanced, harmonious", "bold, vibrant">>),
                Bucket(f.spectral_centroid, {200000, 400000},
                       <<"warm, deep colors", "balanced color palette",
                         "bright, cool colors">>),
                f.key, f.mode)

C27_Witness ==
    /\ call.fn = "build_prompt_from_features" /\ call.ret # None
    /\ call.arg[1].custom_prompt = None
    /\ call.arg[1].features.tempo = 8000
    /\ call.arg[1].features.valence = 7000
    /\ call.arg[1].features.energy = 3000
    /\ call.arg[1].features.spectral_centroid = 400000

\* C28: a custom prompt that is not null, the empty string included, is
\* returned as it is.
C28_OverrideVerbatim ==
    call.fn = "build_prompt_from_features" /\ call.ret # None
        /\ call.arg[1].custom_prompt # None =>
        call.ret = call.arg[1].custom_prompt

\* the renderer of job j has returned the result the run was set up with,
\* and the executor has finished
Exited(j) ==
    /\ call.fn = "_run_remotion_sync"
    /\ pc[j] = "done"
    /\ j \in rendered
    /\ tasks[j] # NoTask
    /\ tasks[j][1].error # Some(RenderErrorMsg("OSError", "spawn"))

\* C29: exit code 0 ends in 'completed', progress 100 and video_path
\* '/videos/<task_id>.mp4'; any other exit code in 'failed', progress 0 and
\* as error the stderr, else the stdout, else 'Unknown render error', cut to
\* 500 characters.
C29_ExitCodeDecides ==
    \A j \in Jobs :
        Exited(j) =>
            LET res == call.ret[1]
                task == tasks[j][1]
                text == IF res.stderr # "" THEN res.stderr
                        ELSE IF res.stdout # "" THEN res.stdout
                        ELSE "Unknown render error"
            IN IF res.returncode = 0
               THEN /\ task.status = "completed"
                    /\ task.progress = 100
                    /\ task.video_path = Some("/videos/" \o ToString(j) \o ".mp4")
               ELSE /\ task.status = "failed"
                    /\ task.progress = 0
                    /\ Len(task.error[1]) <= MaxErrorLen
                    /\ task.error = Some(IF Len(text) > MaxErrorLen
                                         THEN SubSeq(text, 1, MaxErrorLen) ELSE text)

C29_Witness ==
    \E j \in Jobs :
        /\ Exited(j)
        /\ call.ret[1].returncode # 0
        /\ call.ret[1].stderr # "" /\ call.ret[1].stdout # ""
        /\ tasks[j][1].error = Some(call.ret[1].stderr)

\* the image tasks doing their analyze or generate work
ImgWorking == {j \in Jobs : ipc[j] \in {"i_extract", "i_state", "i_generate"}}

Outcome(j) ==
    [status |-> tasks[j][1].status, progress |-> tasks[j][1].progress,
     error |-> tasks[j][1].error,
     video |-> IF tasks[j][1].video_path = None THEN "none"
               ELSE IF tasks[j][1].video_path = Some("/videos/" \o ToString(j) \o ".mp4")
               THEN "own" ELSE "other"]

\* C31: given the same request and the same outcomes of the analysis, the
\* file steps and the renderer, render_visualization_sync and
\* render_visualization store the same sequence of statuses and progress
\* values and end with the same video_path and error.
C31_ExecutorsAgree ==
    \A j \in 1..NumPerKind : \A k \in (NumPerKind + 1)..(2 * NumPerKind) :
        pc[j] = "done" /\ pc[k] = "done" /\ req[j] = req[k] =>
            hist[j] = hist[k] /\ Outcome(j) = Outcome(k)

C31_Witness ==
    \E j \in 1..NumPerKind : \E k \in (NumPerKind + 1)..(2 * NumPerKind) :
        /\ pc[j] = "done" /\ pc[k] = "done" /\ req[j] = req[k]
        /\ call.ret # None /\ call.ret[1].returncode # 0
        /\ Outcome(k).status = "failed" /\ Outcome(k).error = Some(call.ret[1].stderr)
        /\ Len(hist[k]) = 4

\* C39: the renderer's command carries 1280x720, 1920x1080 and 3840x2160 for
\* '720p', '1080p' and '4k', and the composition of the request's style is
\* the composition of no other accepted style.
C39_OwnSizeAndComposition ==
    call.fn = "render_command" /\ call.ret # None =>
        LET request == call.arg[1].request
            cmd == call.ret[1]
        IN /\ request.resolution = "720p" => cmd.width = 1280 /\ cmd.height = 720
           /\ request.resolution = "1080p" => cmd.width = 1920 /\ cmd.height = 1080
           /\ request.resolution = "4k" => cmd.width = 3840 /\ cmd.height = 2160
           /\ \A other \in Styles \ {request.style} :
                  Composition(other) # cmd.composition

\* C32: once a delete of a job was answered 200, in whatever status it was
\* read, get_task returns None for the id in every later state, whatever the
\* job's executor does afterwards.
C32_DeletedStaysGone ==
    \A j \in Jobs : deleted[j] # {} => GetTask(tasks, j) = None

\* C33: an analysis JSON or a video file exists for an id only while the
\* id's record exists; no executor leaves a file for a job whose record was
\* deleted.
C33_NoOrphanFiles ==
    \A j \in Jobs : j \in analysisFiles \cup videoFiles => GetTask(tasks, j) # None

\* C34: whenever the external renderer runs for a job, the audio file in its
\* input directory holds every chunk of the source, whichever way the
\* executors that call _ensure_audio_available for that path interleave.
C34_RendererSeesWholeAudio ==
    \A j \in Jobs : pc[j] = "render" => audioDir[req[j]] = Some(WholeFile)

\* C35: a call of _ensure_audio_available for a path for which an earlier
\* call has returned copies nothing and leaves the renderer's input
\* directory as it was.
C35_SecondCallCopiesNothing ==
    [][\A k \in Jobs :
          /\ pc[k] = "e_check" /\ pc'[k] # "e_check"
          /\ \E j \in Jobs \ {k} :
                /\ req[j] = req[k]
                /\ pc[j] \in {"u2_get", "u2_save", "render"} \/ j \in rendered
          => audioDir' = audioDir /\ copied' = copied /\ pc'[k] = "u2_get"]_vars

C35_Witness ==
    \E j, k \in Jobs :
        /\ j # k /\ req[j] = req[k]
        /\ pc[j] = "done" /\ j \in rendered /\ copied[j] = AudioChunks
        /\ pc[k] = "u2_get" /\ copied[k] = 0
        /\ tasks[k] # NoTask /\ tasks[k][1].status = "analyzing"
        /\ audioDir[req[k]] = Some(WholeFile)

\* C38: right after create_task returned an id, get_task for it returns a
\* record pending, 0, no video_path, no error; and list_tasks holds exactly
\* the records of the ids created and not deleted since.
C38_CreatedAndListed ==
    /\ \A j \in Jobs : pc[j] = "queued" /\ deleted[j] = {} =>
          GetTask(tasks, j) = <<[task_id |-> j, status |-> "pending", progress |-> 0,
                                 video_path |-> None, error |-> None]>>
    /\ {t.task_id : t \in ListTasks(tasks)} = {j \in 1..nextId : deleted[j] = {}}

\* C36: update_task leaves every field whose argument is None as stored,
\* never changes task_id, and leaves the records of all other ids as they
\* were.
C36_PartialUpdate ==
    [][call.fn = "update_task" /\ call.ret = None /\ call'.ret # None =>
          LET a == call.arg[1] IN
          /\ \A id \in Jobs \ {a.task_id} : tasks'[id] = tasks[id]
          /\ tasks[a.task_id] # NoTask =>
                /\ tasks'[a.task_id] # NoTask
                /\ tasks'[a.task_id][1].task_id = a.task_id
                /\ a.status = None => tasks'[a.task_id][1].status = tasks[a.task_id][1].status
                /\ a.progress = None =>
                      tasks'[a.task_id][1].progress = tasks[a.task_id][1].progress
                /\ a.video_path = None =>
                      tasks'[a.task_id][1].video_path = tasks[a.task_id][1].video_path
                /\ a.error = None => tasks'[a.task_id][1].error = tasks[a.task_id][1].error]_vars

C36_Witness ==
    /\ call.fn = "update_task" /\ call.ret # None /\ call.ret[1] # None
    /\ call.arg[1].status # None /\ call.arg[1].error = None
    /\ call.arg[1].video_path = None
    /\ call.ret[1][1].status = "rendering" /\ call.ret[1][1].error # None
    /\ \E id \in Jobs \ {call.arg[1].task_id} :
          tasks[id] # NoTask /\ tasks[id][1].video_path # None

\* C37: update_task and delete_task called for an id that has no record
\* return None and False, and leave the store as it was; update_task stores
\* no record for such an id.
C37_AbsentIdUntouched ==
    [][call.fn \in {"update_task", "delete_task"} /\ call.ret = None /\ call'.ret # None
          /\ GetTask(tasks, call.arg[1].task_id) = None =>
          /\ tasks' = tasks
          /\ IF call.fn = "update_task" THEN call'.ret[1] = None
             ELSE call'.ret[1] = FALSE]_vars

C37_Witness ==
    /\ call.fn = "update_task" /\ call.ret = Some(None)
    /\ call.arg[1].status # None
    /\ GetTask(tasks, call.arg[1].task_id) = None
    /\ \E id \in Jobs : tasks[id] # NoTask

====
